---- MODULE Spec2Model ----
(***************************************************************************)
(* A model of the User workflow of the vibe-coding-template repository:    *)
(* InMemoryUserRepository (a Map of users in insertion order, an email     *)
(* index and an id counter), the createUserInputSchema validation and      *)
(* CreateUserUseCase.execute, which runs as an async function and so       *)
(* interleaves with other calls at its two await points.                   *)
(*                                                                         *)
(* Strings are sequences of one-character strings, so that toLowerCase,    *)
(* trim, parseInt and String are computed character by character.          *)
(***************************************************************************)
EXTENDS Integers, Sequences, FiniteSets, TLC

(***************************************************************************)
(* Bounds of the model.                                                    *)
(***************************************************************************)
\* create is not called once nextId exceeds MaxId
MaxId == 2
\* under LifecycleSpec execute is not called once nextId exceeds MaxLifecycleId
MaxLifecycleId == 3
\* the clock read by new Date() stops advancing at MaxClock
MaxClock == 1
\* under ListSpec create is not called once nextId exceeds MaxListId
MaxListId == 12
\* getContainer constructs no Container once MaxContainers have been constructed
MaxContainers == 2
\* callers keep at most MaxHeld controllers they got from getUserController
MaxHeld == 2

(***************************************************************************)
(* Program constants.                                                      *)
(***************************************************************************)
\* z.string().max(100, "Name is too long")
MaxNameLen == 100
\* z.string().min(1, "Name is required")
MinNameLen == 1
\* z.string().email().max(255)
MaxEmailLen == 255
\* list(limit = 10, offset = 0)
DefaultLimit == 10
DefaultOffset == 0
\* private nextId = 1
FirstId == 1
\* Number.parseInt(id, 10)
Radix == 10

(***************************************************************************)
(* JavaScript values.                                                      *)
(***************************************************************************)
Null == [null |-> TRUE]
\* an optional number (a Map lookup result, NaN-able parse): <<>> or <<n>>
NaN == <<>>
Undefined == <<>>

Digits == <<"0", "1", "2", "3", "4", "5", "6", "7", "8", "9">>
IsDigit(c) == \E i \in 1..Radix : Digits[i] = c
DigitVal(c) == (CHOOSE i \in 1..Radix : Digits[i] = c) - 1
IsSpace(c) == c = " "

\* String.prototype.toLowerCase, over the letters the model uses
LowerChar(c) ==
    CASE c = "A" -> "a"
      [] c = "B" -> "b"
      [] c = "X" -> "x"
      [] OTHER -> c

toLowerCase(s) == [i \in 1..Len(s) |-> LowerChar(s[i])]

RECURSIVE trimStart(_)
trimStart(s) ==
    IF s = <<>> THEN s
    ELSE IF IsSpace(Head(s)) THEN trimStart(Tail(s)) ELSE s

RECURSIVE trimEnd(_)
trimEnd(s) ==
    IF s = <<>> THEN s
    ELSE IF IsSpace(s[Len(s)]) THEN trimEnd(SubSeq(s, 1, Len(s) - 1)) ELSE s

\* String.prototype.trim
trim(s) == trimEnd(trimStart(s))

\* the value of the longest prefix of digits of s, acc being the value so far
RECURSIVE parseDigits(_, _)
parseDigits(s, acc) ==
    IF s = <<>> \/ ~IsDigit(Head(s)) THEN acc
    ELSE parseDigits(Tail(s), acc * Radix + DigitVal(Head(s)))

\* Number.parseInt(id, 10): leading whitespace is skipped, an optional sign is
\* read, then the longest prefix of digits; NaN when there is no digit
parseInt(id) ==
    LET t == trimStart(id)
        neg == t # <<>> /\ Head(t) = "-"
        signed == t # <<>> /\ Head(t) \in {"-", "+"}
        d == IF signed THEN Tail(t) ELSE t
    IN  IF d = <<>> \/ ~IsDigit(Head(d)) THEN NaN
        ELSE <<(IF neg THEN -1 ELSE 1) * parseDigits(d, 0)>>

isNaN(n) == n = NaN

\* String(n) for an integer n
RECURSIVE NatToString(_)
NatToString(n) ==
    IF n < Radix THEN <<Digits[n + 1]>>
    ELSE NatToString(n \div Radix) \o <<Digits[(n % Radix) + 1]>>

String(n) == IF n < 0 THEN <<"-">> \o NatToString(-n) ELSE NatToString(n)

\* Array.prototype.slice(start, end)
slice(arr, start, end) ==
    LET len == Len(arr)
        from == IF start < 0 THEN (IF len + start < 0 THEN 0 ELSE len + start)
                ELSE (IF start > len THEN len ELSE start)
        to == IF end < 0 THEN (IF len + end < 0 THEN 0 ELSE len + end)
              ELSE (IF end > len THEN len ELSE end)
    IN  IF to <= from THEN <<>> ELSE SubSeq(arr, from + 1, to)


(***************************************************************************)
(* Inputs.  An email or a name is a string; an optional property or        *)
(* argument is <<>> when absent and <<v>> when present.                    *)
(***************************************************************************)
EmailA == <<"a", "@", "x", ".", "c", "o">>
EmailAUpper == <<"A", "@", "X", ".", "c", "o">>
EmailB == <<"b", "@", "x", ".", "c", "o">>
EmailInvalid == <<"a", "x">>

RECURSIVE Repeat(_, _)
Repeat(c, n) == IF n = 0 THEN <<>> ELSE <<c>> \o Repeat(c, n - 1)

NameAl == <<"a", "l">>
NamePadded == <<" ", "a", "l", " ">>
NameBlank == <<" ">>
NameEmpty == <<>>
NameLongest == Repeat("n", MaxNameLen)
NameTooLong == Repeat("n", MaxNameLen + 1)
NamePaddedLongest == <<" ">> \o Repeat("n", MaxNameLen)

NameBo == <<"b", "o">>

ObjectInput(e, n) == [type |-> "object", email |-> e, name |-> n]

\* the inputs given to CreateUserUseCase.execute(input: unknown): a non-object,
\* objects without an email or a name, a malformed email, and every name with
\* one valid email, every valid email with one name
ExecuteInputs ==
    {[type |-> "null", email |-> <<>>, name |-> <<>>],
     ObjectInput(<<>>, <<NameAl>>),
     ObjectInput(<<EmailA>>, <<>>),
     ObjectInput(<<EmailInvalid>>, <<NameAl>>)}
    \cup {ObjectInput(<<EmailA>>, <<n>>) :
            n \in {NameAl, NamePadded, NameBlank, NameEmpty, NameLongest, NameTooLong,
                   NamePaddedLongest}}
    \cup {ObjectInput(<<e>>, <<NameAl>>) : e \in {EmailAUpper, EmailB}}

\* the emails given to findByEmail
LookupEmails == {EmailA, EmailAUpper, EmailB}

\* the CreateUserInput values given to the repository directly
CreateInputs ==
    {[email |-> e, name |-> NameAl] : e \in {EmailA, EmailAUpper, EmailB}}

\* the UpdateUserInput values given to the repository directly
UpdateInputs ==
    {[email |-> e, name |-> n] :
        e \in {<<>>, <<EmailA>>, <<EmailAUpper>>, <<EmailB>>},
        n \in {<<>>, <<NameBo>>}}

\* the id strings given to findById, update and delete
IdStrings ==
    {String(i) : i \in 0..(MaxId + 1)}
    \cup {<<"x">>, <<>>, <<" ", "1">>, <<"2", "x">>, <<"-", "1">>}

\* the concurrent CreateUserUseCase.execute calls: the second one is a call that
\* starts while the first is in flight
Procs == {1, 2}

(***************************************************************************)
(* State.                                                                  *)
(***************************************************************************)
VARIABLES
    users,         \* InMemoryUserRepository.users: the Map's entries in insertion order
    emailIndex,    \* InMemoryUserRepository.emailIndex: email -> id
    nextId,        \* InMemoryUserRepository.nextId
    clock,         \* the time new Date() reads
    pc,            \* where each CreateUserUseCase.execute call stands
    input,         \* the argument of each execute call
    validatedInput,\* validationResult.data of each call
    existingUser,  \* what findByEmail returned to each call
    createdUser,   \* what create returned to each call
    result,        \* how each call's promise settled
    calls,         \* the repository methods each call has invoked, in order
    before,        \* the users Map when each call started
    alone,         \* no other call has run since each call started
    emailStored,   \* a stored user had each call's email when the call started
    sequential,    \* no call has ever run while an execute call was in flight
    issuedIds,     \* the ids create has returned, in order
    deletedIds,    \* the ids delete has removed
    pgRows,        \* PostgresUserRepository: the rows of the users table
    pgNextId,      \* the identity sequence of users.id
    memOutcome,    \* how the last call settled on InMemoryUserRepository
    pgOutcome,     \* how the same call settled on PostgresUserRepository
    request,       \* the last UserController call: method, arguments, repository fault
    outcome,       \* how the use case settled in that call
    response,      \* the ControllerResponse that call resolved with
    created,       \* the DTOs createUser returned for users not updated or deleted since
    logged,        \* what that call did with its logger and use case, in order
    repositoryCalls, \* the calls that call's use case made on the repository, in order
    containers,    \* the Container objects constructed so far
    containerInstance, \* the module variable containerInstance: 0 for null
    handedOut,     \* the Containers getContainer returned since the last resetContainer
    constructed,   \* the number of Containers constructed since the last resetContainer
    heldControllers, \* the controllers callers got from getUserController, by Container
    storedIn,      \* the emails createUser stored, by repository object
    authOutcome,   \* the last call on an auth service and how it settled
    actionResult,  \* how the last server action settled
    revalidated,   \* the paths that action passed to revalidatePath, in order
    processEnv,    \* process.env, the four variables getEnv reads
    validatedEnv,  \* the module variable validatedEnv of getEnv
    envResult,     \* what the last getEnv call returned or threw, and what it read
    logLevel,      \* ConsoleLoggerService.logLevel as <<n>>, <<>> before construction
    logCall,       \* the last call on the ConsoleLoggerService
    printed        \* what that call passed to console.log, in order

repoVars == <<users, emailIndex, nextId>>
procVars == <<pc, input, validatedInput, existingUser, createdUser, result, calls, before, alone,
              emailStored, sequential>>
pgVars == <<pgRows, pgNextId, memOutcome, pgOutcome>>
ctlVars == <<request, outcome, response, created, logged, repositoryCalls>>
diVars == <<containers, containerInstance, handedOut, constructed, heldControllers, storedIn>>
\* what the calls on one InMemoryUserRepository and its execute calls read and write
useCaseVars == <<repoVars, clock, procVars, issuedIds, deletedIds>>
\* what those calls never touch
\* the state of the layers around them
srvVars == <<actionResult, revalidated>>
envVars == <<processEnv, validatedEnv, envResult>>
logVars == <<logLevel, logCall, printed>>
moreVars == <<authOutcome, srvVars, envVars, logVars>>
extVars == <<pgVars, ctlVars, diVars, moreVars>>
vars == <<users, emailIndex, nextId, clock, pc, input, validatedInput, existingUser,
          createdUser, result, calls, before, alone, emailStored, sequential,
          issuedIds, deletedIds, pgRows, pgNextId, memOutcome, pgOutcome,
          request, outcome, response, created, logged, repositoryCalls,
          containers, containerInstance, handedOut, constructed, heldControllers, storedIn,
          authOutcome, actionResult, revalidated, processEnv, validatedEnv, envResult,
          logLevel, logCall, printed>>

(***************************************************************************)
(* Map<number, User>: entries in insertion order.                          *)
(***************************************************************************)
MapHas(m, k) == \E i \in 1..Len(m) : m[i].key = k

\* Map.prototype.get: <<>> for undefined
MapGet(m, k) ==
    IF MapHas(m, k) THEN <<m[CHOOSE i \in 1..Len(m) : m[i].key = k].value>>
    ELSE Undefined

\* Map.prototype.set: an existing key keeps its position
MapSet(m, k, v) ==
    IF MapHas(m, k)
    THEN [i \in 1..Len(m) |-> IF m[i].key = k THEN [key |-> k, value |-> v] ELSE m[i]]
    ELSE Append(m, [key |-> k, value |-> v])

\* Map.prototype.delete
MapDelete(m, k) == SelectSeq(m, LAMBDA e : e.key # k)

\* Array.from(map.values())
MapValues(m) == [i \in 1..Len(m) |-> m[i].value]

\* Map<string, number>, insertion order never read
IndexGet(ix, e) == IF e \in DOMAIN ix THEN <<ix[e]>> ELSE Undefined
IndexSet(ix, e, id) == [x \in (DOMAIN ix) \cup {e} |-> IF x = e THEN id ELSE ix[x]]
IndexDelete(ix, e) == [x \in (DOMAIN ix) \ {e} |-> ix[x]]

\* x ?? null, for an optional x
OrNull(x) == IF x = Undefined THEN Null ELSE x[1]

\* !id for an optional number
Falsy(x) == x = Undefined \/ x[1] = 0


(***************************************************************************)
(* createUserInputSchema.                                                  *)
(***************************************************************************)
\* z.string().email(): one "@", a local part, and a domain with a dot that is
\* followed by at least two characters
IsEmail(s) ==
    /\ Cardinality({i \in 1..Len(s) : s[i] = "@"}) = 1
    /\ LET at == CHOOSE i \in 1..Len(s) : s[i] = "@"
           dots == {i \in (at + 1)..Len(s) : s[i] = "."}
       IN  /\ at > 1
           /\ \A i \in 1..Len(s) : ~IsSpace(s[i])
           /\ dots # {}
           /\ \A i \in dots : i > at + 1 /\ i + 2 <= Len(s)

\* email: z.string().email("Invalid email format").min(1, ...).max(255)
EmailOk(e) ==
    /\ e # Undefined
    /\ IsEmail(e[1])
    /\ Len(e[1]) >= 1
    /\ Len(e[1]) <= MaxEmailLen

\* a name schema without the min(1) check
NameOkNoMin(n) ==
    /\ n # Undefined
    /\ Len(n[1]) <= MaxNameLen

\* name: z.string().min(1, ...).max(100, ...).trim(): the checks run in the
\* order written, so min and max see the string as given and trim runs last
NameOk(n) ==
    /\ n # Undefined
    /\ Len(n[1]) >= MinNameLen
    /\ Len(n[1]) <= MaxNameLen

\* a schema whose name is not trimmed
safeParseNoTrim(in) ==
    IF in.type = "object" /\ EmailOk(in.email) /\ NameOk(in.name)
    THEN [success |-> TRUE, data |-> [email |-> in.email[1], name |-> in.name[1]]]
    ELSE [success |-> FALSE]

\* createUserInputSchema.safeParse(input)
safeParse(in) ==
    IF in.type = "object" /\ EmailOk(in.email) /\ NameOk(in.name)
    THEN [success |-> TRUE, data |-> [email |-> in.email[1], name |-> trim(in.name[1])]]
    ELSE [success |-> FALSE]

(***************************************************************************)
(* Errors.                                                                 *)
(***************************************************************************)
\* new ValidationError("Invalid input", issues)
ValidationError ==
    [name |-> "ValidationError", message |-> "Invalid input",
     code |-> "VALIDATION_ERROR", statusCode |-> 400]

\* a duplicate email reported with an error class of its own
EmailExistsConflict ==
    [name |-> "ConflictError", message |-> "User with this email already exists"]

\* new Error("User with this email already exists")
EmailExistsError ==
    [name |-> "Error", message |-> "User with this email already exists"]

Resolved(v) == [settled |-> "resolved", value |-> v]
Rejected(e) == [settled |-> "rejected", error |-> e]
Pending == [settled |-> "pending"]

(***************************************************************************)
(* InMemoryUserRepository: what each method returns in the current state,  *)
(* and the state it leaves.                                                *)
(***************************************************************************)
\* a findById that falls back to the first stored user
findByIdOrFirst(id) ==
    LET numericId == parseInt(id)
    IN  IF isNaN(numericId) \/ users = <<>> THEN Null
        ELSE IF MapHas(users, numericId[1]) THEN MapGet(users, numericId[1])[1]
        ELSE users[1].value

findById(id) ==
    LET numericId == parseInt(id)
    IN  IF isNaN(numericId) THEN Null
        ELSE OrNull(MapGet(users, numericId[1]))

findByEmail(email) ==
    LET id == IndexGet(emailIndex, toLowerCase(email))
    IN  IF Falsy(id) THEN Null ELSE OrNull(MapGet(users, id[1]))

\* the user create(input) builds
NewUser(in) ==
    [id |-> nextId, email |-> toLowerCase(in.email), name |-> in.name,
     createdAt |-> clock, updatedAt |-> clock]

\* a create that takes the number of stored users plus one as the id
createReusingIds(in) ==
    LET id == Len(users) + 1
        user == [NewUser(in) EXCEPT !.id = id]
    IN  /\ nextId' = nextId + 1
        /\ users' = MapSet(users, id, user)
        /\ emailIndex' = IndexSet(emailIndex, user.email, id)
        /\ issuedIds' = Append(issuedIds, id)

\* a create that reads nextId and leaves it as it was
createKeepingNextId(in) ==
    LET id == nextId
        user == NewUser(in)
    IN  /\ nextId' = nextId
        /\ users' = MapSet(users, id, user)
        /\ emailIndex' = IndexSet(emailIndex, user.email, id)
        /\ issuedIds' = Append(issuedIds, id)

create(in) ==
    LET id == nextId
        user == NewUser(in)
    IN  /\ nextId' = nextId + 1
        /\ users' = MapSet(users, id, user)
        /\ emailIndex' = IndexSet(emailIndex, user.email, id)
        /\ issuedIds' = Append(issuedIds, id)

\* the value create(in) returns, read in the state create leaves
Created == OrNull(MapGet(users', issuedIds'[Len(issuedIds')]))

\* an update that leaves updatedAt as it was
UpdatedUserStale(user, in) ==
    [id |-> user.id,
     email |-> IF in.email = Undefined THEN user.email ELSE toLowerCase(in.email[1]),
     name |-> IF in.name = Undefined THEN user.name ELSE in.name[1],
     createdAt |-> user.createdAt,
     updatedAt |-> user.updatedAt]

\* the user update(id, input) builds from the stored user
UpdatedUser(user, in) ==
    [id |-> user.id,
     email |-> IF in.email = Undefined THEN user.email ELSE toLowerCase(in.email[1]),
     name |-> IF in.name = Undefined THEN user.name ELSE in.name[1],
     createdAt |-> user.createdAt,
     updatedAt |-> clock]

\* what update(id, input) returns
updateResult(id, in) ==
    LET numericId == parseInt(id)
    IN  IF isNaN(numericId) THEN Null
        ELSE LET user == MapGet(users, numericId[1])
             IN  IF user = Undefined THEN Null ELSE UpdatedUser(user[1], in)

\* the users Map and the emailIndex Map that update(id, input) leaves
usersAfterUpdate(id, in) ==
    LET numericId == parseInt(id)
        user == IF isNaN(numericId) THEN Undefined ELSE MapGet(users, numericId[1])
    IN  IF user = Undefined THEN users
        ELSE MapSet(users, numericId[1], UpdatedUser(user[1], in))

emailIndexAfterUpdate(id, in) ==
    LET numericId == parseInt(id)
        user == IF isNaN(numericId) THEN Undefined ELSE MapGet(users, numericId[1])
    IN  IF user = Undefined THEN emailIndex
        ELSE LET updatedUser == UpdatedUser(user[1], in)
             IN  IF in.email # Undefined /\ in.email[1] # <<>>
                    /\ in.email[1] # user[1].email
                 THEN IndexSet(IndexDelete(emailIndex, user[1].email),
                               updatedUser.email, numericId[1])
                 ELSE emailIndex

update(id, in) ==
    /\ users' = usersAfterUpdate(id, in)
    /\ emailIndex' = emailIndexAfterUpdate(id, in)

\* what delete(id) returns
deleteResult(id) ==
    LET numericId == parseInt(id)
    IN  ~isNaN(numericId) /\ MapGet(users, numericId[1]) # Undefined

\* a delete that leaves the user in the Map
deleteIndexOnly(id) ==
    IF deleteResult(id)
    THEN LET numericId == parseInt(id)[1]
             user == MapGet(users, numericId)[1]
         IN  /\ users' = users
             /\ emailIndex' = IndexDelete(emailIndex, user.email)
             /\ deletedIds' = deletedIds \cup {numericId}
    ELSE UNCHANGED <<users, emailIndex, deletedIds>>

\* a delete that removes the first entry of the Map
usersAfterDeleteFirst(id) ==
    IF deleteResult(id) THEN Tail(users) ELSE users

\* the users Map and the emailIndex Map that delete(id) leaves
usersAfterDelete(id) ==
    IF deleteResult(id) THEN MapDelete(users, parseInt(id)[1]) ELSE users

emailIndexAfterDelete(id) ==
    IF deleteResult(id)
    THEN LET user == MapGet(users, parseInt(id)[1])[1]
         IN  IndexDelete(emailIndex, user.email)
    ELSE emailIndex

delete(id) ==
    /\ users' = usersAfterDelete(id)
    /\ emailIndex' = emailIndexAfterDelete(id)
    /\ deletedIds' = IF deleteResult(id) THEN deletedIds \cup {parseInt(id)[1]}
                     ELSE deletedIds

\* a list that passes limit as the end of the slice
listNoOffset(limit, offset) ==
    LET l == IF limit = Undefined THEN DefaultLimit ELSE limit[1]
        o == IF offset = Undefined THEN DefaultOffset ELSE offset[1]
    IN  slice(MapValues(users), o, l)

\* list(limit = 10, offset = 0), its arguments optional
list(limit, offset) ==
    LET l == IF limit = Undefined THEN DefaultLimit ELSE limit[1]
        o == IF offset = Undefined THEN DefaultOffset ELSE offset[1]
        allUsers == MapValues(users)
    IN  slice(allUsers, o, o + l)


(***************************************************************************)
(* The initial state: a new InMemoryUserRepository and no call started.    *)
(***************************************************************************)
\* a user stored in the Map m has the email e, letter case ignored
HasEmail(m, e) == \E i \in 1..Len(m) : toLowerCase(m[i].value.email) = toLowerCase(e)

NoInput == [type |-> "none"]
\* no UserController call has been made yet
NoRequest == [method |-> "none"]
NoResponse == [none |-> TRUE]
\* process.env with none of the four variables set
NoEnv ==
    [DATABASE_URL |-> Undefined, NEXT_PUBLIC_APP_URL |-> Undefined,
     NODE_ENV |-> Undefined, APP_LOG_LEVEL |-> Undefined]
NoData == [none |-> TRUE]

Init ==
    /\ users = <<>>
    /\ emailIndex = <<>>
    /\ nextId = FirstId
    /\ clock = 0
    /\ pc = [p \in Procs |-> "idle"]
    /\ input = [p \in Procs |-> NoInput]
    /\ validatedInput = [p \in Procs |-> NoData]
    /\ existingUser = [p \in Procs |-> Null]
    /\ createdUser = [p \in Procs |-> Null]
    /\ result = [p \in Procs |-> Pending]
    /\ calls = [p \in Procs |-> <<>>]
    /\ before = [p \in Procs |-> <<>>]
    /\ alone = [p \in Procs |-> TRUE]
    /\ emailStored = [p \in Procs |-> FALSE]
    /\ sequential = TRUE
    /\ issuedIds = <<>>
    /\ deletedIds = {}
    /\ pgRows = <<>>
    /\ pgNextId = FirstId
    /\ memOutcome = Pending
    /\ pgOutcome = Pending
    /\ request = NoRequest
    /\ outcome = Pending
    /\ response = NoResponse
    /\ created = {}
    /\ logged = <<>>
    /\ repositoryCalls = <<>>
    /\ containers = <<>>
    /\ containerInstance = 0
    /\ handedOut = {}
    /\ constructed = 0
    /\ heldControllers = {}
    /\ storedIn = {}
    /\ authOutcome = [method |-> "none"]
    /\ actionResult = Pending
    /\ revalidated = <<>>
    /\ processEnv = NoEnv
    /\ validatedEnv = Null
    /\ envResult = Pending
    /\ logLevel = Undefined
    /\ logCall = [method |-> "none"]
    /\ printed = <<>>

\* the execute calls that have started and not settled
InFlight == {p \in Procs : pc[p] \in {"awaitFindByEmail", "awaitCreate"}}

\* a call other than p's runs: every started call but p's is no longer alone,
\* and what it started from is no longer kept
Disturb(p) ==
    /\ alone' = [q \in Procs |-> IF q # p /\ pc[q] # "idle" THEN FALSE ELSE alone[q]]
    /\ before' = [q \in Procs |-> IF q # p /\ pc[q] # "idle" THEN <<>> ELSE before[q]]
    /\ sequential' = (sequential /\ InFlight \ {p} = {})

\* create may still be called: every call in flight can be given an id
\* within the bound
CanCreate == nextId + Cardinality(InFlight) <= MaxId

(***************************************************************************)
(* Time passes.                                                            *)
(***************************************************************************)
Tick ==
    /\ UNCHANGED extVars
    /\ clock < MaxClock
    /\ clock' = clock + 1
    /\ UNCHANGED <<repoVars, procVars, issuedIds, deletedIds>>

(***************************************************************************)
(* Calls made directly on the repository.  No method awaits anything, so   *)
(* each runs to its end when it is called.                                 *)
(***************************************************************************)
RepoFindById(id) ==
    /\ UNCHANGED extVars
    /\ Disturb(0)
    /\ UNCHANGED <<repoVars, clock, pc, input, validatedInput, emailStored, existingUser, createdUser,
                   result, calls, issuedIds, deletedIds>>

RepoFindByEmail(email) ==
    /\ UNCHANGED extVars
    /\ Disturb(0)
    /\ UNCHANGED <<repoVars, clock, pc, input, validatedInput, emailStored, existingUser, createdUser,
                   result, calls, issuedIds, deletedIds>>

RepoCreate(in) ==
    /\ UNCHANGED extVars
    /\ CanCreate
    /\ create(in)
    /\ Disturb(0)
    /\ UNCHANGED <<clock, pc, input, validatedInput, emailStored, existingUser, createdUser,
                   result, calls, deletedIds>>

RepoUpdate(id, in) ==
    /\ UNCHANGED extVars
    /\ update(id, in)
    /\ Disturb(0)
    /\ UNCHANGED <<nextId, clock, pc, input, validatedInput, emailStored, existingUser, createdUser,
                   result, calls, issuedIds, deletedIds>>

RepoDelete(id) ==
    /\ UNCHANGED extVars
    /\ delete(id)
    /\ Disturb(0)
    /\ UNCHANGED <<nextId, clock, pc, input, validatedInput, emailStored, existingUser, createdUser,
                   result, calls, issuedIds>>

RepoList(limit, offset) ==
    /\ UNCHANGED extVars
    /\ Disturb(0)
    /\ UNCHANGED <<repoVars, clock, pc, input, validatedInput, emailStored, existingUser, createdUser,
                   result, calls, issuedIds, deletedIds>>

(***************************************************************************)
(* CreateUserUseCase.execute(input), in the three steps its two awaits     *)
(* cut it into.                                                            *)
(***************************************************************************)
\* the call: safeParse, and on success the findByEmail call, which runs to
\* its end before execute awaits its promise
ExecuteCall(p, in) ==
    /\ UNCHANGED extVars
    /\ pc[p] = "idle"
    /\ input' = [input EXCEPT ![p] = in]
    /\ alone' = [q \in Procs |->
                    IF q = p THEN InFlight = {}
                    ELSE IF pc[q] # "idle" THEN FALSE ELSE alone[q]]
    /\ before' = [q \in Procs |->
                     IF q = p THEN (IF InFlight = {} THEN users ELSE <<>>)
                     ELSE IF pc[q] # "idle" THEN <<>> ELSE before[q]]
    /\ sequential' = (sequential /\ InFlight = {})
    /\ emailStored' = [emailStored EXCEPT ![p] =
                          in.email # Undefined /\ HasEmail(users, in.email[1])]
    /\ LET validationResult == safeParse(in)
       IN  IF ~validationResult.success
           THEN /\ result' = [result EXCEPT ![p] = Rejected(ValidationError)]
                /\ pc' = [pc EXCEPT ![p] = "done"]
                /\ UNCHANGED <<validatedInput, existingUser, calls>>
           ELSE /\ validatedInput' = [validatedInput EXCEPT ![p] = validationResult.data]
                /\ existingUser' =
                       [existingUser EXCEPT ![p] = findByEmail(validationResult.data.email)]
                /\ calls' = [calls EXCEPT ![p] = <<"findByEmail">>]
                /\ pc' = [pc EXCEPT ![p] = "awaitFindByEmail"]
                /\ UNCHANGED result
    /\ UNCHANGED <<repoVars, clock, createdUser, issuedIds, deletedIds>>

\* an execute that looks the email up again right before it creates
ExecuteAfterFindByEmailGuarded(p) ==
    /\ UNCHANGED extVars
    /\ pc[p] = "awaitFindByEmail"
    /\ Disturb(p)
    /\ IF existingUser[p] # Null \/ findByEmail(validatedInput[p].email) # Null
       THEN /\ result' = [result EXCEPT ![p] = Rejected(EmailExistsError)]
            /\ pc' = [pc EXCEPT ![p] = "done"]
            /\ UNCHANGED <<repoVars, createdUser, calls, issuedIds>>
       ELSE /\ create([email |-> toLowerCase(validatedInput[p].email),
                       name |-> validatedInput[p].name])
            /\ createdUser' = [createdUser EXCEPT ![p] = Created]
            /\ calls' = [calls EXCEPT ![p] = Append(@, "create")]
            /\ pc' = [pc EXCEPT ![p] = "awaitCreate"]
            /\ UNCHANGED result
    /\ UNCHANGED <<clock, input, validatedInput, emailStored, existingUser, deletedIds>>

\* after the first await: the uniqueness rule, then the create call
ExecuteAfterFindByEmail(p) ==
    /\ UNCHANGED extVars
    /\ pc[p] = "awaitFindByEmail"
    /\ Disturb(p)
    /\ IF existingUser[p] # Null
       THEN /\ result' = [result EXCEPT ![p] = Rejected(EmailExistsError)]
            /\ pc' = [pc EXCEPT ![p] = "done"]
            /\ UNCHANGED <<repoVars, createdUser, calls, issuedIds>>
       ELSE /\ create([email |-> toLowerCase(validatedInput[p].email),
                       name |-> validatedInput[p].name])
            /\ createdUser' = [createdUser EXCEPT ![p] = Created]
            /\ calls' = [calls EXCEPT ![p] = Append(@, "create")]
            /\ pc' = [pc EXCEPT ![p] = "awaitCreate"]
            /\ UNCHANGED result
    /\ UNCHANGED <<clock, input, validatedInput, emailStored, existingUser, deletedIds>>

\* after the second await: return user
ExecuteAfterCreate(p) ==
    /\ UNCHANGED extVars
    /\ pc[p] = "awaitCreate"
    /\ Disturb(p)
    /\ result' = [result EXCEPT ![p] = Resolved(createdUser[p])]
    /\ pc' = [pc EXCEPT ![p] = "done"]
    /\ UNCHANGED <<repoVars, clock, input, validatedInput, emailStored, existingUser, createdUser, calls,
                   issuedIds, deletedIds>>

\* the caller has taken the outcome; the next call can start
ExecuteSettled(p) ==
    /\ UNCHANGED extVars
    /\ pc[p] = "done"
    /\ pc' = [pc EXCEPT ![p] = "idle"]
    /\ input' = [input EXCEPT ![p] = NoInput]
    /\ validatedInput' = [validatedInput EXCEPT ![p] = NoData]
    /\ existingUser' = [existingUser EXCEPT ![p] = Null]
    /\ createdUser' = [createdUser EXCEPT ![p] = Null]
    /\ result' = [result EXCEPT ![p] = Pending]
    /\ calls' = [calls EXCEPT ![p] = <<>>]
    /\ before' = [before EXCEPT ![p] = <<>>]
    /\ alone' = [alone EXCEPT ![p] = TRUE]
    /\ emailStored' = [emailStored EXCEPT ![p] = FALSE]
    /\ UNCHANGED sequential
    /\ UNCHANGED <<repoVars, clock, issuedIds, deletedIds>>

\* the limit and offset arguments given to list
ListArgs == {Undefined} \cup {<<n>> : n \in 0..(MaxId + 1)}

\* the inputs of a call that starts while another call is in flight
ConcurrentInputs ==
    {ObjectInput(<<e>>, <<NameAl>>) : e \in {EmailA, EmailAUpper, EmailB}}

\* the ids of the users there can be, as strings
UserIdStrings == {String(i) : i \in FirstId..MaxId}

\* update inputs that change the email only
EmailUpdates == {[email |-> <<e>>, name |-> Undefined] : e \in {EmailA, EmailB}}

\* the outcome of every settled call has been taken by its caller
NoneSettled == \A p \in Procs : pc[p] # "done"

\* Calls of execute, and of update and delete, start once the outcomes of the
\* settled calls have been taken; calls in flight go on at any time.
Next ==
    \/ \E id \in UserIdStrings, in \in EmailUpdates : NoneSettled /\ RepoUpdate(id, in)
    \/ \E id \in UserIdStrings : NoneSettled /\ RepoDelete(id)
    \/ \E in \in ExecuteInputs : NoneSettled /\ CanCreate /\ ExecuteCall(1, in)
    \/ \E in \in ConcurrentInputs :
          NoneSettled /\ CanCreate /\ 1 \in InFlight /\ ExecuteCall(2, in)
    \/ \E p \in Procs : ExecuteAfterFindByEmail(p)
    \/ \E p \in Procs : ExecuteAfterCreate(p)
    \/ \E p \in Procs : ExecuteSettled(p)

Spec == Init /\ [][Next]_vars

RepoNext ==
    \/ Tick
    \/ \E id \in IdStrings : RepoFindById(id)
    \/ \E e \in LookupEmails : RepoFindByEmail(e)
    \/ \E in \in CreateInputs : RepoCreate(in)
    \/ \E id \in IdStrings, in \in UpdateInputs : RepoUpdate(id, in)
    \/ \E id \in IdStrings : RepoDelete(id)
    \/ \E l \in ListArgs, o \in ListArgs : RepoList(l, o)

RepoSpec == Init /\ [][RepoNext]_vars

(***************************************************************************)
(* The lifecycle of the users of one repository: execute, update and       *)
(* delete calls made one after the other, none starting before the last    *)
(* has settled.                                                            *)
(***************************************************************************)
\* the inputs of the execute calls: the valid emails, in either letter case
LifecycleInputs ==
    {ObjectInput(<<e>>, <<NameAl>>) : e \in {EmailA, EmailAUpper, EmailB}}

LifecycleIdStrings == {String(i) : i \in FirstId..MaxLifecycleId}

LifecycleNext ==
    \/ \E id \in LifecycleIdStrings, in \in EmailUpdates :
          NoneSettled /\ InFlight = {} /\ RepoUpdate(id, in)
    \/ \E id \in LifecycleIdStrings : NoneSettled /\ InFlight = {} /\ RepoDelete(id)
    \/ \E in \in LifecycleInputs : nextId <= MaxLifecycleId /\ ExecuteCall(1, in)
    \/ ExecuteAfterFindByEmail(1)
    \/ ExecuteAfterCreate(1)
    \/ ExecuteSettled(1)

LifecycleSpec == Init /\ [][LifecycleNext]_vars


(***************************************************************************)
(* Properties of CreateUserUseCase.execute, checked under Spec (C1 and C7   *)
(* under LifecycleSpec).                                                   *)
(***************************************************************************)
\* the stored users, as a set
StoredUsers == {users[i].value : i \in 1..Len(users)}

\* no two entries of the users Map hold the same email
UniqueEmails ==
    \A i, j \in 1..Len(users) :
        users[i].value.email = users[j].value.email => i = j

\* the input is an object with an email and a name that pass the schema
ValidInput(in) == in.type = "object" /\ EmailOk(in.email) /\ NameOk(in.name)

\* C1: an execute call that runs with no other call in flight, with a
\* schema-valid input whose email (letter case ignored) is the email of a
\* stored user, rejects with Error 'User with this email already exists',
\* never calls repository.create and leaves the stored users unchanged.
\* Stated here for the histories in which no two calls ever overlapped, which
\* the claim includes: those of LifecycleSpec.
C1_DuplicateEmailRejected ==
    \A p \in Procs :
        (/\ pc[p] = "done"
         /\ alone[p]
         /\ sequential
         /\ ValidInput(input[p])
         /\ emailStored[p])
        => /\ result[p] = Rejected(EmailExistsError)
           /\ calls[p] = <<"findByEmail">>
           /\ users = before[p]

\* C5: every stored user, each of them persisted by a successful execute
\* (update changes emails only under Spec), has a trimmed name of 1 to 100
\* characters.
C5_StoredNamesTrimmedInRange ==
    \A u \in StoredUsers :
        /\ u.name = trim(u.name)
        /\ Len(u.name) >= 1
        /\ Len(u.name) <= 100

\* the inputs the claim lists as failing the schema: a non-object, a missing or
\* malformed email, an empty name, a name of more than 100 characters (and a
\* missing name)
C6_FailsSchema(in) ==
    \/ in.type # "object"
    \/ in.email = <<>>
    \/ in.email = <<EmailInvalid>>
    \/ in.name = <<>>
    \/ in.name = <<NameEmpty>>
    \/ (in.name # <<>> /\ Len(in.name[1]) > 100)

\* C6: an execute call whose input fails the schema rejects with a
\* ValidationError (code VALIDATION_ERROR, statusCode 400) and has called no
\* repository method; when no other call ran meanwhile the stored users are
\* those the call started with.
C6_InvalidInputRejectedBeforeRepository ==
    \A p \in Procs :
        (pc[p] # "idle" /\ C6_FailsSchema(input[p]))
        => /\ pc[p] = "done"
           /\ result[p].settled = "rejected"
           /\ result[p].error.name = "ValidationError"
           /\ result[p].error.code = "VALIDATION_ERROR"
           /\ result[p].error.statusCode = 400
           /\ calls[p] = <<>>
           /\ (alone[p] => users = before[p])

C6_Witness ==
    \E p \in Procs :
        /\ pc[p] = "done"
        /\ input[p] = ObjectInput(<<EmailA>>, <<NameTooLong>>)
        /\ result[p] = Rejected(ValidationError)
        /\ alone[p]
        /\ users # <<>>

\* C7: after any sequence of sequential execute, update and delete calls no
\* two stored users have the same email.
C7_UniqueEmailsOverLifecycle == sequential => UniqueEmails


\* what C4 says of the call p, settled: it resolved with the user create
\* returned, whose email is the input email in lowercase and whose name is the
\* input name without leading and trailing whitespace, and findById(String(id))
\* and findByEmail(email) now return that same user
C4_Outcome(p) ==
    /\ result[p].settled = "resolved"
    /\ calls[p] = <<"findByEmail", "create">>
    /\ result[p].value = createdUser[p]
    /\ result[p].value.email = [i \in 1..Len(input[p].email[1]) |->
                                   LowerChar(input[p].email[1][i])]
    /\ result[p].value.name = trim(input[p].name[1])
    /\ findById(String(result[p].value.id)) = result[p].value
    /\ findByEmail(input[p].email[1]) = result[p].value

RaceNext ==
    \/ \E in \in ExecuteInputs : NoneSettled /\ CanCreate /\ ExecuteCall(1, in)
    \/ \E in \in ConcurrentInputs :
          NoneSettled /\ CanCreate /\ 1 \in InFlight /\ ExecuteCall(2, in)
    \/ \E p \in Procs : ExecuteAfterFindByEmail(p)
    \/ \E p \in Procs : ExecuteAfterCreate(p)
    \/ \E p \in Procs : ExecuteSettled(p)

RaceSpec == Init /\ [][RaceNext]_vars

\* both calls have settled, their inputs are valid and have the same email
\* (letter case ignored), and each lookup found no user: as no user is ever
\* removed under RaceSpec, both lookups ran before either create
C3_BothLookedUpFirst(p, q) ==
    /\ p # q
    /\ pc[p] = "done"
    /\ pc[q] = "done"
    /\ ValidInput(input[p])
    /\ ValidInput(input[q])
    /\ toLowerCase(input[p].email[1]) = toLowerCase(input[q].email[1])
    /\ existingUser[p] = Null
    /\ existingUser[q] = Null

\* C3: when two execute calls with the same valid email are interleaved so
\* that both lookups complete before either create runs, both calls succeed
\* and the repository then holds two users with that email.
C3_RaceStoresTwoUsersWithOneEmail ==
    \A p, q \in Procs :
        C3_BothLookedUpFirst(p, q)
        => /\ result[p].settled = "resolved"
           /\ result[q].settled = "resolved"
           /\ result[p].value.id # result[q].value.id
           /\ result[p].value \in StoredUsers
           /\ result[q].value \in StoredUsers
           /\ result[p].value.email = toLowerCase(input[p].email[1])
           /\ result[q].value.email = result[p].value.email

C3_Witness ==
    /\ C3_BothLookedUpFirst(1, 2)
    /\ input[1].email # input[2].email
    /\ ~UniqueEmails


(***************************************************************************)
(* Properties of InMemoryUserRepository, checked under RepoSpec.           *)
(***************************************************************************)
\* C2: after any sequence of create calls made directly on the repository no
\* two stored users have the same email.
C2_CreateKeepsEmailsUnique ==
    \A u, v \in StoredUsers : u.email = v.email => u.id = v.id

\* the email e in lowercase
C8_Lowered(e) == [i \in 1..Len(e) |-> LowerChar(e[i])]

C10_CreateIssuesFreshId ==
    [][issuedIds' # issuedIds =>
        LET id == issuedIds'[Len(issuedIds')]
            stored == MapGet(users', id)
        IN  /\ Len(issuedIds') = Len(issuedIds) + 1
            /\ \A i \in 1..Len(issuedIds) : issuedIds[i] < id
            /\ (issuedIds = <<>> => id = 1)
            /\ id \notin deletedIds
            /\ stored # Undefined
            /\ stored[1].id = id
            /\ stored[1].createdAt = stored[1].updatedAt
            /\ stored[1].createdAt = clock]_vars

C10_Witness ==
    /\ Len(issuedIds) >= 2
    /\ deletedIds # {}
    /\ clock > 0
    /\ LET stored == MapGet(users, issuedIds[Len(issuedIds)])
       IN  stored # Undefined /\ stored[1].createdAt = clock

\* the id string parses to the id of a stored user
C11_Existing(id) ==
    /\ ~isNaN(parseInt(id))
    /\ \E u \in StoredUsers : u.id = parseInt(id)[1]

\* C11: update(id, input) on an existing user returns and stores a user in
\* which exactly the fields given in input are replaced (the email in
\* lowercase) and updatedAt is the time of the call, while id, createdAt and
\* the fields absent from input keep their values; every other stored user,
\* and the order of the users, is unchanged.
C11_UpdateReplacesGivenFields ==
    \A id \in IdStrings, in \in UpdateInputs :
        C11_Existing(id) =>
            LET n == parseInt(id)[1]
                i == CHOOSE j \in 1..Len(users) : users[j].key = n
                after == usersAfterUpdate(id, in)
                old == users[i].value
                new == after[i].value
            IN  /\ Len(after) = Len(users)
                /\ after[i].key = n
                /\ new.id = old.id
                /\ new.createdAt = old.createdAt
                /\ new.updatedAt = clock
                /\ new.email = IF in.email = Undefined THEN old.email
                               ELSE C8_Lowered(in.email[1])
                /\ new.name = IF in.name = Undefined THEN old.name ELSE in.name[1]
                /\ updateResult(id, in) = new
                /\ \A j \in 1..Len(users) : j # i => after[j] = users[j]

C11_Witness ==
    \E u, v \in StoredUsers :
        /\ u.id # v.id
        /\ u.updatedAt > u.createdAt
        /\ u.name = NameBo
        /\ u.email = EmailB
        /\ v.updatedAt = v.createdAt
        /\ v.name = NameAl

\* Number.parseInt(id, 10) is NaN ("not parseable as an integer": an id such
\* as "2x" does parse, to 2), or it is the id of no stored user
C12_Absent(id) ==
    \/ isNaN(parseInt(id))
    \/ ~\E u \in StoredUsers : u.id = parseInt(id)[1]

\* C12: for an id that matches no stored user or does not parse, findById
\* returns null, update returns null and delete returns false (values, no
\* throw), and the update and delete calls leave the stored users and the
\* email index unchanged.
C12_NotFoundByValue ==
    \A id \in IdStrings :
        C12_Absent(id) =>
            /\ findById(id) = Null
            /\ deleteResult(id) = FALSE
            /\ usersAfterDelete(id) = users
            /\ emailIndexAfterDelete(id) = emailIndex
            /\ \A in \in UpdateInputs :
                  /\ updateResult(id, in) = Null
                  /\ usersAfterUpdate(id, in) = users
                  /\ emailIndexAfterUpdate(id, in) = emailIndex

C12_Witness ==
    /\ users # <<>>
    /\ \E d \in deletedIds :
          /\ C12_Absent(String(d))
          /\ findById(String(d)) = Null
          /\ updateResult(String(d), [email |-> <<EmailA>>, name |-> Undefined]) = Null
          /\ ~deleteResult(String(d))
    /\ C12_Absent(<<"x">>)
    /\ updateResult(<<"x">>, [email |-> Undefined, name |-> <<NameBo>>]) = Null
    /\ ~C12_Absent(<<"2", "x">>)

\* the users Map m without the entry of the id n
C13_Others(m, n) == SelectSeq(m, LAMBDA e : e.key # n)

\* C13: delete(id) of a stored user returns true and removes exactly that
\* user: in the Map it leaves no entry has the id, so that findById(id) is
\* null, list does not contain the user and a second delete(id) returns false,
\* and every other entry is as it was, in the same order.
C13_DeleteRemovesExactlyThatUser ==
    /\ \A id \in IdStrings :
          C11_Existing(id) =>
              LET n == parseInt(id)[1]
                  after == usersAfterDelete(id)
              IN  /\ deleteResult(id) = TRUE
                  /\ ~MapHas(after, n)
                  /\ \A i \in 1..Len(after) : after[i].value.id # n
                  /\ after = C13_Others(users, n)
                  /\ Len(after) = Len(users) - 1
    \* in the states the delete calls have left
    /\ \A d \in deletedIds :
          /\ findById(String(d)) = Null
          /\ ~deleteResult(String(d))
          /\ \A l \in ListArgs, o \in ListArgs :
                \A i \in 1..Len(list(l, o)) : list(l, o)[i].id # d
    /\ \A u \in StoredUsers :
          /\ findById(String(u.id)) = u
          /\ \E i \in 1..Len(list(Undefined, Undefined)) :
                list(Undefined, Undefined)[i] = u

C13_Witness ==
    /\ Len(users) = 1
    /\ Cardinality(deletedIds) = 1
    /\ \E d \in deletedIds :
          /\ d < users[1].key
          /\ ~deleteResult(String(d))
          /\ findById(String(d)) = Null
    /\ list(Undefined, Undefined) = <<users[1].value>>

(***************************************************************************)
(* A repository of more users than the default limit of list.              *)
(***************************************************************************)
ListIdStrings == {String(i) : i \in FirstId..MaxListId}

\* the limit and offset arguments, up to one past the number of users
ListSpecArgs == {Undefined} \cup {<<n>> : n \in 0..(MaxListId + 1)}

ListCreate ==
    /\ UNCHANGED extVars
    /\ nextId <= MaxListId
    /\ create([email |-> EmailA, name |-> NameAl])
    /\ Disturb(0)
    /\ UNCHANGED <<clock, pc, input, validatedInput, emailStored, existingUser,
                   createdUser, result, calls, deletedIds>>

ListNext ==
    \/ ListCreate
    \/ \E id \in {String(1), String(2)} :
          RepoUpdate(id, [email |-> Undefined, name |-> <<NameBo>>])
    \/ \E id \in ListIdStrings : RepoDelete(id)
    \/ \E l \in {Undefined, <<0>>, <<DefaultLimit>>}, o \in {Undefined, <<1>>} :
          RepoList(l, o)

ListSpec == Init /\ [][ListNext]_vars

\* the users of the set S in the order of their ids, the order they were
\* inserted in
RECURSIVE C9_ById(_)
C9_ById(S) ==
    IF S = {} THEN <<>>
    ELSE LET first == CHOOSE u \in S : \A v \in S : u.id <= v.id
         IN  <<first>> \o C9_ById(S \ {first})

\* C9: list(limit, offset) with limit >= 0 and offset >= 0 returns exactly
\* min(limit, max(0, n - offset)) users, those at the positions offset ..
\* offset + limit - 1 of the insertion order, where an updated user keeps its
\* place and a deleted one is gone; an omitted limit is 10, an omitted offset 0.
C9_ListReturnsPageInInsertionOrder ==
    LET inserted == C9_ById(StoredUsers)
        n == Len(inserted)
    IN  \A l, o \in ListSpecArgs :
            LET limit == IF l = <<>> THEN 10 ELSE l[1]
                offset == IF o = <<>> THEN 0 ELSE o[1]
                rest == IF n - offset > 0 THEN n - offset ELSE 0
                count == IF limit < rest THEN limit ELSE rest
                page == list(l, o)
            IN  /\ Len(page) = count
                /\ \A i \in 1..count : page[i] = inserted[offset + i]

C9_Witness ==
    /\ Len(users) > 10
    /\ Len(list(Undefined, Undefined)) = 10
    /\ Len(list(Undefined, <<1>>)) = 10
    /\ deletedIds # {}
    /\ users[1].value.name = NameBo
    /\ users[1].value.id = 2

(***************************************************************************)
(* PostgresUserRepository on the users table: id an identity column, email *)
(* unique.  The same calls are made on an InMemoryUserRepository and on a  *)
(* PostgresUserRepository, and what each call settles with is kept.        *)
(***************************************************************************)
\* the outcome of a repository call, as far as the two adapters are to agree
\* on it: null or a user (its email and name), a boolean, a page of users, or
\* a thrown error
OfUser(u) ==
    IF u = Null THEN [settled |-> "resolved", kind |-> "null"]
    ELSE [settled |-> "resolved", kind |-> "user", email |-> u.email, name |-> u.name]
OfBoolean(b) == [settled |-> "resolved", kind |-> "boolean", value |-> b]
OfUsers(us) ==
    [settled |-> "resolved", kind |-> "users",
     values |-> [i \in 1..Len(us) |-> [email |-> us[i].email, name |-> us[i].name]]]
Threw == [settled |-> "rejected", kind |-> "error"]

\* email: text("email").notNull().unique(): a row other than the row of the
\* id exceptId has the email
pgUniqueViolation(email, exceptId) ==
    \E i \in 1..Len(pgRows) : pgRows[i].email = email /\ pgRows[i].id # exceptId

\* the row create(input) inserts
pgNewRow(in) ==
    [id |-> pgNextId, email |-> trim(toLowerCase(in.email)), name |-> trim(in.name),
     createdAt |-> clock, updatedAt |-> clock]

\* PostgresUserRepository.findById
pgFindById(id) ==
    LET numericId == parseInt(id)
        rows == IF isNaN(numericId) THEN <<>>
                ELSE SelectSeq(pgRows, LAMBDA row : row.id = numericId[1])
    IN  IF rows = <<>> THEN Null ELSE rows[1]

\* PostgresUserRepository.findByEmail
pgFindByEmail(email) ==
    LET rows == SelectSeq(pgRows, LAMBDA row : row.email = toLowerCase(email))
    IN  IF rows = <<>> THEN Null ELSE rows[1]

\* PostgresUserRepository.create: the insert takes the next identity value,
\* and the statement fails on the unique constraint
pgCreateOutcome(in) ==
    IF pgUniqueViolation(pgNewRow(in).email, 0) THEN Threw ELSE OfUser(pgNewRow(in))

pgRowsAfterCreate(in) ==
    IF pgUniqueViolation(pgNewRow(in).email, 0) THEN pgRows ELSE Append(pgRows, pgNewRow(in))

\* the row update(id, input) sets
pgUpdatedRow(row, in) ==
    [id |-> row.id,
     email |-> IF in.email # Undefined THEN trim(toLowerCase(in.email[1])) ELSE row.email,
     name |-> IF in.name # Undefined THEN trim(in.name[1]) ELSE row.name,
     createdAt |-> row.createdAt,
     updatedAt |-> clock]

\* the update statement of update(id, input) fails on the unique constraint
pgUpdateThrows(id, in) ==
    LET numericId == parseInt(id)
    IN  /\ ~isNaN(numericId)
        /\ pgFindById(id) # Null
        /\ pgUniqueViolation(pgUpdatedRow(pgFindById(id), in).email, numericId[1])

\* PostgresUserRepository.update
pgUpdateOutcome(id, in) ==
    IF pgUpdateThrows(id, in) THEN Threw
    ELSE IF pgFindById(id) = Null THEN OfUser(Null)
    ELSE OfUser(pgUpdatedRow(pgFindById(id), in))

pgRowsAfterUpdate(id, in) ==
    IF pgUpdateThrows(id, in) \/ pgFindById(id) = Null THEN pgRows
    ELSE [i \in 1..Len(pgRows) |->
             IF pgRows[i].id = parseInt(id)[1] THEN pgUpdatedRow(pgRows[i], in)
             ELSE pgRows[i]]

\* PostgresUserRepository.delete
pgDeleteOutcome(id) == OfBoolean(pgFindById(id) # Null)

pgRowsAfterDelete(id) ==
    IF pgFindById(id) = Null THEN pgRows
    ELSE SelectSeq(pgRows, LAMBDA row : row.id # parseInt(id)[1])

\* PostgresUserRepository.list: select ... limit ... offset ... with no
\* order by, so the rows come in an order the database chooses: order is that
\* choice, a permutation of the row numbers
pgList(limit, offset, order) ==
    LET l == IF limit = Undefined THEN DefaultLimit ELSE limit[1]
        o == IF offset = Undefined THEN DefaultOffset ELSE offset[1]
        results == [i \in 1..Len(pgRows) |-> pgRows[order[i]]]
    IN  SubSeq(results, o + 1, IF o + l < Len(results) THEN o + l ELSE Len(results))

\* the calls made on both repositories
PairCreateInputs ==
    {[email |-> e, name |-> n] : e \in {EmailA, EmailB}, n \in {NameAl, NamePadded}}
PairUpdateInputs ==
    {[email |-> e, name |-> n] : e \in {Undefined, <<EmailA>>}, n \in {Undefined, <<NameBo>>}}
PairIdStrings == {String(i) : i \in FirstId..MaxId} \cup {<<"x">>}
PairListArgs == {Undefined, <<1>>}

PairFindById(id) ==
    /\ memOutcome' = OfUser(findById(id))
    /\ pgOutcome' = OfUser(pgFindById(id))
    /\ UNCHANGED <<useCaseVars, pgRows, pgNextId, ctlVars, diVars, moreVars>>

PairFindByEmail(email) ==
    /\ memOutcome' = OfUser(findByEmail(email))
    /\ pgOutcome' = OfUser(pgFindByEmail(email))
    /\ UNCHANGED <<useCaseVars, pgRows, pgNextId, ctlVars, diVars, moreVars>>

PairCreate(in) ==
    /\ nextId <= MaxId
    /\ pgNextId <= MaxId
    /\ create(in)
    /\ memOutcome' = OfUser(NewUser(in))
    /\ pgRows' = pgRowsAfterCreate(in)
    /\ pgNextId' = pgNextId + 1
    /\ pgOutcome' = pgCreateOutcome(in)
    /\ UNCHANGED <<clock, procVars, deletedIds, ctlVars, diVars, moreVars>>

PairUpdate(id, in) ==
    /\ update(id, in)
    /\ memOutcome' = OfUser(updateResult(id, in))
    /\ pgRows' = pgRowsAfterUpdate(id, in)
    /\ pgOutcome' = pgUpdateOutcome(id, in)
    /\ UNCHANGED <<nextId, clock, procVars, issuedIds, deletedIds, pgNextId, ctlVars, diVars, moreVars>>

PairDelete(id) ==
    /\ delete(id)
    /\ memOutcome' = OfBoolean(deleteResult(id))
    /\ pgRows' = pgRowsAfterDelete(id)
    /\ pgOutcome' = pgDeleteOutcome(id)
    /\ UNCHANGED <<nextId, clock, procVars, issuedIds, pgNextId, ctlVars, diVars, moreVars>>

PairList(limit, offset) ==
    /\ \E order \in Permutations(1..Len(pgRows)) :
          pgOutcome' = OfUsers(pgList(limit, offset, order))
    /\ memOutcome' = OfUsers(list(limit, offset))
    /\ UNCHANGED <<useCaseVars, pgRows, pgNextId, ctlVars, diVars, moreVars>>

PairNext ==
    \/ \E id \in PairIdStrings : PairFindById(id)
    \/ \E e \in {EmailA, EmailAUpper} : PairFindByEmail(e)
    \/ \E in \in PairCreateInputs : PairCreate(in)
    \/ \E id \in PairIdStrings, in \in PairUpdateInputs : PairUpdate(id, in)
    \/ \E id \in PairIdStrings : PairDelete(id)
    \/ \E l \in PairListArgs, o \in PairListArgs : PairList(l, o)

PairSpec == Init /\ [][PairNext]_vars

ListUsersDefaultLimit == 10
ListUsersDefaultOffset == 0
\* if (limit < 1 || limit > 100)
MinLimit == 1
MaxLimit == 100
\* super(message, 404), super(message, 400)
NotFoundStatus == 404
\* APP_LOG_LEVEL: /^[0-4]$/ and .default("2")
MaxLogLevel == 4
DefaultLogLevel == 2

\* new NotFoundError("User", id): the message is built from the identifier
\* unless the identifier is falsy (the empty string)
NotFoundError(resource, identifier) ==
    [name |-> "NotFoundError",
     message |-> IF identifier # <<>>
                 THEN <<resource, " with identifier '", identifier, "' not found">>
                 ELSE <<resource, " not found">>,
     code |-> "NOT_FOUND", statusCode |-> NotFoundStatus]

\* new ValidationError("Limit must be between 1 and 100", [...])
LimitValidationError ==
    [name |-> "ValidationError", message |-> "Limit must be between 1 and 100",
     code |-> "VALIDATION_ERROR", statusCode |-> 400]

\* what a failing repository method rejects with: an Error, or a value that
\* is no Error
Faults == {"none", "error", "value"}
RepositoryFailure(fault) ==
    IF fault = "error" THEN [name |-> "Error", message |-> "Failed to create user"]
    ELSE [thrown |-> "value"]

\* error instanceof Error
instanceofError(e) == "name" \in DOMAIN e

\* Date.prototype.toISOString for the first second of the epoch
toISOString(t) ==
    <<"1", "9", "7", "0", "-", "0", "1", "-", "0", "1", "T",
      "0", "0", ":", "0", "0", ":", "0", "0", ".">>
    \o <<Digits[((t \div 100) % Radix) + 1], Digits[((t \div Radix) % Radix) + 1],
         Digits[(t % Radix) + 1]>>
    \o <<"Z">>

\* a toUserResponse that numbers the users from 0
toUserResponseFromZero(user) ==
    [id |-> String(user.id - 1),
     email |-> user.email,
     name |-> user.name,
     createdAt |-> toISOString(user.createdAt),
     updatedAt |-> toISOString(user.updatedAt)]

\* UserController.toUserResponse
toUserResponse(user) ==
    [id |-> String(user.id),
     email |-> user.email,
     name |-> user.name,
     createdAt |-> toISOString(user.createdAt),
     updatedAt |-> toISOString(user.updatedAt)]

\* CreateUserUseCase.execute(input), run to its end with no other call in
\* between: how its promise settles
executeOutcome(in, fault) ==
    LET validationResult == safeParse(in)
    IN  IF ~validationResult.success THEN Rejected(ValidationError)
        ELSE IF fault # "none" THEN Rejected(RepositoryFailure(fault))
        ELSE IF findByEmail(validationResult.data.email) # Null
             THEN Rejected(EmailExistsError)
        ELSE Resolved(NewUser([email |-> toLowerCase(validationResult.data.email),
                               name |-> validationResult.data.name]))

\* a GetUserUseCase.execute that throws a plain Error for a missing user
getUserOutcomePlain(id, fault) ==
    IF fault # "none" THEN Rejected(RepositoryFailure(fault))
    ELSE LET user == findById(id)
         IN  IF user = Null THEN Rejected([name |-> "Error", message |-> "User not found"])
             ELSE Resolved(user)

\* GetUserUseCase.execute(id)
getUserOutcome(id, fault) ==
    IF fault # "none" THEN Rejected(RepositoryFailure(fault))
    ELSE LET user == findById(id)
         IN  IF user = Null THEN Rejected(NotFoundError("User", id))
             ELSE Resolved(user)

\* a ListUsersUseCase.execute whose total counts every stored user
listUsersOutcomeCountsAll(limit, offset, fault) ==
    LET l == IF limit = Undefined THEN ListUsersDefaultLimit ELSE limit[1]
        o == IF offset = Undefined THEN ListUsersDefaultOffset ELSE offset[1]
    IN  IF l < MinLimit \/ l > MaxLimit THEN Rejected(LimitValidationError)
        ELSE IF fault # "none" THEN Rejected(RepositoryFailure(fault))
        ELSE Resolved([users |-> list(<<l>>, <<o>>), total |-> Len(users)])

\* ListUsersUseCase.execute({limit, offset})
listUsersOutcome(limit, offset, fault) ==
    LET l == IF limit = Undefined THEN ListUsersDefaultLimit ELSE limit[1]
        o == IF offset = Undefined THEN ListUsersDefaultOffset ELSE offset[1]
    IN  IF l < MinLimit \/ l > MaxLimit THEN Rejected(LimitValidationError)
        ELSE IF fault # "none" THEN Rejected(RepositoryFailure(fault))
        ELSE LET page == list(<<l>>, <<o>>)
             IN  Resolved([users |-> page, total |-> Len(page)])

\* the calls the three use cases make on the repository
RepositoryCall(method, args) == [method |-> method, args |-> args]

executeRepositoryCalls(in, fault) ==
    LET validationResult == safeParse(in)
    IN  IF ~validationResult.success THEN <<>>
        ELSE <<RepositoryCall("findByEmail", <<validationResult.data.email>>)>>
             \o (IF fault = "none" /\ findByEmail(validationResult.data.email) = Null
                 THEN <<RepositoryCall("create",
                            <<[email |-> toLowerCase(validationResult.data.email),
                               name |-> validationResult.data.name]>>)>>
                 ELSE <<>>)

getUserRepositoryCalls(id, fault) == <<RepositoryCall("findById", <<id>>)>>

\* a ListUsersUseCase.execute that validates the limit after the query
listUsersRepositoryCallsUnchecked(limit, offset, fault) ==
    LET l == IF limit = Undefined THEN ListUsersDefaultLimit ELSE limit[1]
        o == IF offset = Undefined THEN ListUsersDefaultOffset ELSE offset[1]
    IN  <<RepositoryCall("list", <<l, o>>)>>

listUsersRepositoryCalls(limit, offset, fault) ==
    LET l == IF limit = Undefined THEN ListUsersDefaultLimit ELSE limit[1]
        o == IF offset = Undefined THEN ListUsersDefaultOffset ELSE offset[1]
    IN  IF l < MinLimit \/ l > MaxLimit THEN <<>>
        ELSE <<RepositoryCall("list", <<l, o>>)>>

\* a BaseController.execute that reports every failure as unknown
ControllerExecuteUnknown(o, data) ==
    IF o.settled = "resolved" THEN [success |-> TRUE, data |-> data]
    ELSE [success |-> FALSE, error |-> "UNKNOWN_ERROR",
          message |-> "An unknown error occurred"]

\* BaseController.execute(fn), for an fn whose use case settled with o and
\* which returns data when the use case resolved
ControllerExecute(o, data) ==
    IF o.settled = "resolved" THEN [success |-> TRUE, data |-> data]
    ELSE LET error == o.error
             errorMessage == IF instanceofError(error) THEN error.message
                             ELSE "An unknown error occurred"
             errorName == IF instanceofError(error) THEN error.name ELSE "UNKNOWN_ERROR"
         IN  [success |-> FALSE, error |-> errorName, message |-> errorMessage]

\* what a UserController method does with its logger and its use case, as
\* records of the object called, the method and the message
beginMessage(method) ==
    CASE method = "createUser" -> "UserController > createUser: begin"
      [] method = "getUserById" -> "UserController > getUserById: begin"
      [] method = "listUsers" -> "UserController > listUsers: begin"
endMessage(method) ==
    CASE method = "createUser" -> "UserController > createUser: end"
      [] method = "getUserById" -> "UserController > getUserById: end"
      [] method = "listUsers" -> "UserController > listUsers: end"
LoggerCall(method, message) ==
    [target |-> "logger", method |-> method, message |-> message]
UseCaseCall(method) ==
    [target |-> CASE method = "createUser" -> "createUserUseCase"
                  [] method = "getUserById" -> "getUserUseCase"
                  [] method = "listUsers" -> "listUsersUseCase",
     method |-> "execute", message |-> ""]

\* a catch block that does not log
ControllerExecuteSilent(o) == <<>>

\* the logger call of BaseController.execute(fn): logger.error in the catch block
ControllerExecuteLog(o) ==
    IF o.settled = "resolved" THEN <<>>
    ELSE <<LoggerCall("error", IF instanceofError(o.error) THEN o.error.message
                               ELSE "An unknown error occurred")>>

\* the calls of one UserController method whose use case settled with o:
\* logger.debug, then inside execute the use case and, when it resolved,
\* logger.trace
ControllerLog(method, o) ==
    <<LoggerCall("debug", beginMessage(method)), UseCaseCall(method)>>
    \o (IF o.settled = "resolved" THEN <<LoggerCall("trace", endMessage(method))>>
        ELSE <<>>)
    \o ControllerExecuteLog(o)

\* the response of UserController.getUserById(id) in the current state
getUserByIdResponse(id, fault) ==
    LET o == getUserOutcome(id, fault)
    IN  ControllerExecute(o, IF o.settled = "resolved" THEN toUserResponse(o.value)
                             ELSE Null)

\* the inputs of the controller calls
CtlCreateInputs ==
    {ObjectInput(<<EmailA>>, <<NameAl>>), ObjectInput(<<EmailAUpper>>, <<NamePadded>>),
     ObjectInput(<<EmailB>>, <<NameAl>>), ObjectInput(<<EmailInvalid>>, <<NameAl>>),
     ObjectInput(<<EmailB>>, <<NameEmpty>>)}
CtlIdStrings == {String(i) : i \in FirstId..(MaxId + 1)} \cup {<<"x">>, <<>>}
CtlListArgs ==
    {<<Undefined, Undefined>>, <<<<0>>, Undefined>>, <<<<1>>, <<1>>>>,
     <<<<MaxLimit + 1>>, Undefined>>, <<<<MaxLimit>>, <<-1>>>>, <<<<-1>>, <<0>>>>}
CtlUserIdStrings == {String(i) : i \in FirstId..MaxId}

\* UserController.createUser(input)
controllerCreateUser(in, fault) ==
    /\ nextId <= MaxId
    /\ LET o == executeOutcome(in, fault)
       IN  /\ outcome' = o
           /\ request' = [method |-> "createUser", input |-> in, fault |-> fault]
           /\ logged' = ControllerLog("createUser", o)
           /\ repositoryCalls' = executeRepositoryCalls(in, fault)
           /\ IF o.settled = "resolved"
              THEN /\ create([email |-> o.value.email, name |-> o.value.name])
                   /\ response' = ControllerExecute(o, toUserResponse(o.value))
                   /\ created' = created \cup {toUserResponse(o.value)}
              ELSE /\ response' = ControllerExecute(o, Null)
                   /\ UNCHANGED <<repoVars, issuedIds, created>>
    /\ UNCHANGED <<clock, procVars, deletedIds, pgVars>>

\* UserController.getUserById(id)
controllerGetUserById(id, fault) ==
    /\ outcome' = getUserOutcome(id, fault)
    /\ request' = [method |-> "getUserById", id |-> id, fault |-> fault,
                   returned |-> findById(id)]
    /\ response' = getUserByIdResponse(id, fault)
    /\ logged' = ControllerLog("getUserById", getUserOutcome(id, fault))
    /\ repositoryCalls' = getUserRepositoryCalls(id, fault)
    /\ UNCHANGED <<useCaseVars, created, pgVars>>

\* UserController.listUsers(limit, offset)
controllerListUsers(limit, offset, fault) ==
    /\ LET o == listUsersOutcome(limit, offset, fault)
       IN  /\ outcome' = o
           /\ logged' = ControllerLog("listUsers", o)
           /\ repositoryCalls' = listUsersRepositoryCalls(limit, offset, fault)
           /\ response' =
                  ControllerExecute(o,
                      IF o.settled = "resolved"
                      THEN [users |-> [i \in 1..Len(o.value.users) |->
                                          toUserResponse(o.value.users[i])],
                            total |-> o.value.total]
                      ELSE Null)
    /\ request' = [method |-> "listUsers", limit |-> limit, offset |-> offset,
                   fault |-> fault]
    /\ UNCHANGED <<useCaseVars, created, pgVars>>

\* the three methods called on a controller directly
CtlCreateUser(in, fault) ==
    controllerCreateUser(in, fault) /\ UNCHANGED <<diVars, moreVars>>
CtlGetUserById(id, fault) ==
    controllerGetUserById(id, fault) /\ UNCHANGED <<diVars, moreVars>>
CtlListUsers(limit, offset, fault) ==
    controllerListUsers(limit, offset, fault) /\ UNCHANGED <<diVars, moreVars>>

\* the DTOs of the users other than the one the id string parses to
CreatedBut(id) ==
    {d \in created : isNaN(parseInt(id)) \/ d.id # String(parseInt(id)[1])}

\* repository.update(id, input) and repository.delete(id), called beside the
\* controller
CtlUpdate(id, in) ==
    /\ update(id, in)
    /\ created' = CreatedBut(id)
    /\ UNCHANGED <<nextId, clock, procVars, issuedIds, deletedIds, request, outcome,
                   response, logged, repositoryCalls, pgVars, diVars, moreVars>>

CtlDelete(id) ==
    /\ delete(id)
    /\ created' = CreatedBut(id)
    /\ UNCHANGED <<nextId, clock, procVars, issuedIds, request, outcome, response,
                   logged, repositoryCalls, pgVars, diVars, moreVars>>

ControllerNext ==
    \/ Tick
    \/ \E in \in CtlCreateInputs, fault \in Faults : CtlCreateUser(in, fault)
    \/ \E id \in CtlIdStrings, fault \in Faults : CtlGetUserById(id, fault)
    \/ \E a \in CtlListArgs, fault \in Faults : CtlListUsers(a[1], a[2], fault)
    \/ \E id \in CtlUserIdStrings :
          CtlUpdate(id, [email |-> Undefined, name |-> <<NameBo>>])
    \/ \E id \in CtlUserIdStrings : CtlDelete(id)

ControllerSpec == Init /\ [][ControllerNext]_vars

(***************************************************************************)
(* Properties of UserController and its use cases, checked under           *)
(* ControllerSpec.                                                         *)
(***************************************************************************)
\* the data of the response to the last call, given what its use case
\* resolved with
C15_Data ==
    IF request.method = "listUsers"
    THEN [users |-> [i \in 1..Len(outcome.value.users) |->
                        toUserResponse(outcome.value.users[i])],
          total |-> outcome.value.total]
    ELSE toUserResponse(outcome.value)

\* C15: every createUser, getUserById and listUsers call resolves with a
\* response: {success: true, data} exactly when its use case resolved, and
\* otherwise {success: false, error, message} with the thrown error's name
\* ('ValidationError' for a validation failure, 'NotFoundError' for a missing
\* user, 'UNKNOWN_ERROR' for a value that is no Error) and its message.
C15_ControllerConvertsFailures ==
    request.method # "none" =>
        /\ response # NoResponse
        /\ response.success = (outcome.settled = "resolved")
        /\ outcome.settled = "resolved" => response.data = C15_Data
        /\ outcome.settled = "rejected" =>
              /\ DOMAIN response = {"success", "error", "message"}
              /\ IF "name" \in DOMAIN outcome.error
                 THEN /\ response.error = outcome.error.name
                      /\ response.message = outcome.error.message
                 ELSE response.error = "UNKNOWN_ERROR"
              /\ ("code" \in DOMAIN outcome.error
                      /\ outcome.error.code = "VALIDATION_ERROR")
                    => response.error = "ValidationError"
              /\ ("code" \in DOMAIN outcome.error /\ outcome.error.code = "NOT_FOUND")
                    => response.error = "NotFoundError"

C15_Witness ==
    /\ request.method = "getUserById"
    /\ request.fault = "value"
    /\ request.returned # Null
    /\ response.success = FALSE
    /\ response.error = "UNKNOWN_ERROR"

\* C16 as stated: with a repository that does not fail, every failure a use
\* case raises is a ValidationError or a NotFoundError, so every
\* {success: false} response carries one of these two names.
C16_TwoErrorKinds ==
    (request.method # "none" /\ request.fault = "none" /\ outcome.settled = "rejected")
    => /\ outcome.error.name \in {"ValidationError", "NotFoundError"}
       /\ response.error \in {"ValidationError", "NotFoundError"}

\* C16: with a repository that does not fail, every failure a use case raises
\* is a ValidationError, a NotFoundError, or the Error 'User with this email
\* already exists' of CreateUserUseCase; every {success: false} response
\* carries 'ValidationError', 'NotFoundError' or, for that Error of createUser
\* alone, 'Error'.
C16_ThreeErrorKinds ==
    (request.method # "none" /\ request.fault = "none" /\ outcome.settled = "rejected")
    => /\ response.success = FALSE
       /\ response.error = outcome.error.name
       /\ response.error \in {"ValidationError", "NotFoundError", "Error"}
       /\ response.error = "ValidationError" => request.method \in {"createUser", "listUsers"}
       /\ response.error = "NotFoundError" => request.method = "getUserById"
       /\ response.error = "Error" =>
             /\ request.method = "createUser"
             /\ response.message = "User with this email already exists"

C16_Witness ==
    /\ request.method = "createUser"
    /\ request.fault = "none"
    /\ request.input = ObjectInput(<<EmailAUpper>>, <<NamePadded>>)
    /\ response.success = FALSE
    /\ response.error = "Error"

\* C17: GetUserUseCase.execute(id) rejects with a NotFoundError (code
\* NOT_FOUND, statusCode 404) exactly when findById(id) returned null, and
\* otherwise resolves with the user findById returned; the call leaves the
\* repository as it was.
C17_GetUserThrowsNotFoundOnNull ==
    /\ []((request.method = "getUserById" /\ request.fault = "none") =>
             IF request.returned = Null
             THEN /\ outcome.settled = "rejected"
                  /\ outcome.error.name = "NotFoundError"
                  /\ outcome.error.code = "NOT_FOUND"
                  /\ outcome.error.statusCode = 404
             ELSE outcome = Resolved(request.returned))
    /\ [][(request' # request /\ request'.method = "getUserById")
             => UNCHANGED <<users, emailIndex, nextId>>]_vars

C17_Witness ==
    /\ request.method = "getUserById"
    /\ request.fault = "none"
    /\ request.returned = Null
    /\ request.id = String(2)
    /\ 2 \in deletedIds
    /\ users # <<>>
    /\ outcome.settled = "rejected"

\* s is the decimal string of the number n > 0
C20_Decimal(s, n) ==
    /\ s # <<>>
    /\ \A i \in 1..Len(s) : IsDigit(s[i])
    /\ s[1] # "0"
    /\ parseDigits(s, 0) = n

\* C20: the id in the response of createUser is the decimal string of the id
\* the repository assigned; and for every user created through createUser and
\* not updated or deleted since, getUserById with that string resolves with
\* success and a DTO with the same id, email, name, createdAt and updatedAt.
C20_IdRoundTrips ==
    /\ (request.method = "createUser" /\ response.success)
          => /\ C20_Decimal(response.data.id, issuedIds[Len(issuedIds)])
             /\ response.data.id = String(outcome.value.id)
    /\ \A d \in created :
          /\ \E u \in StoredUsers : C20_Decimal(d.id, u.id)
          /\ getUserByIdResponse(d.id, "none") = [success |-> TRUE, data |-> d]
    /\ (request.method = "getUserById" /\ request.fault = "none"
            /\ \E d \in created : d.id = request.id)
          => /\ response.success
             /\ response.data \in created

C20_Witness ==
    /\ request.method = "getUserById"
    /\ request.fault = "none"
    /\ request.id = String(2)
    /\ response.success
    /\ response.data \in created
    /\ response.data.email = EmailA
    /\ response.data.createdAt # toISOString(0)
    /\ Cardinality(created) = 1
    /\ Len(users) = 2

(***************************************************************************)
(* Container: the object graph, its set* methods, and the singleton        *)
(* accessor.  An object is a record of its class and of the Container      *)
(* whose constructor made it (0 for an object made by the caller); a use   *)
(* case holds its repository, a controller its logger and use cases.       *)
(* `containers` is the heap of Containers constructed so far and           *)
(* containerInstance the index of the singleton, 0 for null.               *)
(***************************************************************************)
ConsoleLoggerService(c) == [class |-> "ConsoleLoggerService", madeBy |-> c]
PostgresUserRepository(c) == [class |-> "PostgresUserRepository", madeBy |-> c]
PlaceholderAuthService(c) == [class |-> "PlaceholderAuthService", madeBy |-> c]

CreateUserUseCase(userRepository) ==
    [class |-> "CreateUserUseCase", userRepository |-> userRepository]
GetUserUseCase(userRepository) ==
    [class |-> "GetUserUseCase", userRepository |-> userRepository]
ListUsersUseCase(userRepository) ==
    [class |-> "ListUsersUseCase", userRepository |-> userRepository]

UserController(logger, createUserUseCase, getUserUseCase, listUsersUseCase) ==
    [logger |-> logger,
     createUserUseCase |-> createUserUseCase,
     getUserUseCase |-> getUserUseCase,
     listUsersUseCase |-> listUsersUseCase]

\* new Container(), as the c-th Container constructed
Container(c) ==
    [loggerService |-> ConsoleLoggerService(c),
     userRepository |-> PostgresUserRepository(c),
     authService |-> PlaceholderAuthService(c),
     createUserUseCase |-> CreateUserUseCase(PostgresUserRepository(c)),
     getUserUseCase |-> GetUserUseCase(PostgresUserRepository(c)),
     listUsersUseCase |-> ListUsersUseCase(PostgresUserRepository(c)),
     userController |->
         UserController(ConsoleLoggerService(c),
                        CreateUserUseCase(PostgresUserRepository(c)),
                        GetUserUseCase(PostgresUserRepository(c)),
                        ListUsersUseCase(PostgresUserRepository(c)))]

getUserController(c) == containers[c].userController
getAuthService(c) == containers[c].authService
getUserRepository(c) == containers[c].userRepository
getLoggerService(c) == containers[c].loggerService

\* the Container `this` after this.setUserRepository(repository)
setUserRepository(this, repository) ==
    [this EXCEPT
        !.userRepository = repository,
        !.createUserUseCase = CreateUserUseCase(repository),
        !.getUserUseCase = GetUserUseCase(repository),
        !.listUsersUseCase = ListUsersUseCase(repository),
        !.userController =
            UserController(this.loggerService,
                           CreateUserUseCase(repository),
                           GetUserUseCase(repository),
                           ListUsersUseCase(repository))]

\* the Container `this` after this.setAuthService(service)
setAuthService(this, service) == [this EXCEPT !.authService = service]

\* setLoggerService that keeps the controller it had
setLoggerServiceKeepsController(this, service) ==
    [this EXCEPT !.loggerService = service]

\* the Container `this` after this.setLoggerService(service)
setLoggerService(this, service) ==
    [this EXCEPT
        !.loggerService = service,
        !.userController =
            UserController(service,
                           this.createUserUseCase,
                           this.getUserUseCase,
                           this.listUsersUseCase)]

\* a swap that writes the new use cases and logger into the controller the
\* Container had, so that callers holding it see them
heldAfterSwapInPlace(c, after) ==
    {IF h.container = c /\ h.controller = getUserController(c)
     THEN [h EXCEPT !.controller = after.userController] ELSE h : h \in heldControllers}

\* the controllers callers hold, after a set* call turned Container c into
\* `after`: the call assigns new objects to the Container's fields and writes
\* to no existing use case or controller
heldAfterSwap(c, after) == heldControllers

\* getContainer that constructs on every call
alwaysConstructs == TRUE

\* if (!containerInstance)
noContainerInstance == containerInstance = 0

\* the implementations a caller passes to set*
UserRepositories ==
    {[class |-> "InMemoryUserRepository", madeBy |-> 0],
     [class |-> "StubUserRepository", madeBy |-> 0]}
AuthServices ==
    {[class |-> "NextAuthService", madeBy |-> 0],
     [class |-> "ClerkAuthService", madeBy |-> 0]}
LoggerServices == {[class |-> "SilentLoggerService", madeBy |-> 0]}

\* getContainer(): what it does to the module variable and the heap
getContainer ==
    /\ IF noContainerInstance
       THEN /\ Len(containers) < MaxContainers
            /\ containers' = Append(containers, Container(Len(containers) + 1))
            /\ containerInstance' = Len(containers) + 1
            /\ constructed' = constructed + 1
       ELSE UNCHANGED <<containers, containerInstance, constructed>>
    /\ handedOut' = handedOut \cup {containerInstance'}

GetContainer ==
    /\ getContainer
    /\ UNCHANGED <<heldControllers, storedIn, useCaseVars, pgVars, ctlVars, moreVars>>

ResetContainer ==
    /\ containerInstance' = 0
    /\ handedOut' = {}
    /\ constructed' = 0
    /\ UNCHANGED <<containers, heldControllers, storedIn, useCaseVars, pgVars, ctlVars, moreVars>>

SetUserRepository(c, repository) ==
    /\ c \in DOMAIN containers
    /\ containers' = [containers EXCEPT ![c] = setUserRepository(@, repository)]
    /\ heldControllers' = heldAfterSwap(c, setUserRepository(containers[c], repository))
    /\ UNCHANGED <<containerInstance, handedOut, constructed, storedIn,
                   useCaseVars, pgVars, ctlVars, moreVars>>

SetAuthService(c, service) ==
    /\ c \in DOMAIN containers
    /\ containers' = [containers EXCEPT ![c] = setAuthService(@, service)]
    /\ UNCHANGED <<containerInstance, handedOut, constructed, heldControllers, storedIn,
                   useCaseVars, pgVars, ctlVars, moreVars>>

SetLoggerService(c, service) ==
    /\ c \in DOMAIN containers
    /\ containers' = [containers EXCEPT ![c] = setLoggerService(@, service)]
    /\ heldControllers' = heldAfterSwap(c, setLoggerService(containers[c], service))
    /\ UNCHANGED <<containerInstance, handedOut, constructed, storedIn,
                   useCaseVars, pgVars, ctlVars, moreVars>>

(***************************************************************************)
(* PlaceholderAuthService, called through the auth service a Container     *)
(* returns.  A settled promise is a record of how it settled and of the    *)
(* kind of value it settled with.                                          *)
(***************************************************************************)
ResolvedNull == [settled |-> "resolved", kind |-> "null"]
ResolvedBoolean(b) == [settled |-> "resolved", kind |-> "boolean", value |-> b]
ResolvedString(str) == [settled |-> "resolved", kind |-> "string", value |-> str]
ResolvedUser(user) == [settled |-> "resolved", kind |-> "user", value |-> user]
RejectedError(message) ==
    [settled |-> "rejected", kind |-> "error", name |-> "Error", message |-> message]

\* what PlaceholderAuthService.getCurrentUser resolves with: return null
placeholderUser == Null

getCurrentUser ==
    IF placeholderUser = Null THEN ResolvedNull ELSE ResolvedUser(placeholderUser)

getCurrentUserId ==
    LET user == placeholderUser
    IN  IF user # Null THEN ResolvedString(String(user.id)) ELSE ResolvedNull

isAuthenticated ==
    LET user == placeholderUser
    IN  ResolvedBoolean(user # Null)

\* a requireAuth that hands the missing user on
requireAuthLenient == getCurrentUser

requireAuth ==
    LET user == placeholderUser
    IN  IF user = Null THEN RejectedError("Authentication required")
        ELSE ResolvedUser(user)

\* a call of one method on the auth service of Container c
authCall(c, method, settledWith) ==
    /\ c \in DOMAIN containers
    /\ getAuthService(c).class = "PlaceholderAuthService"
    /\ authOutcome' = [method |-> method, service |-> getAuthService(c),
                       outcome |-> settledWith]

AuthGetCurrentUser(c) ==
    /\ authCall(c, "getCurrentUser", getCurrentUser)
    /\ UNCHANGED <<diVars, useCaseVars, pgVars, ctlVars, srvVars, envVars, logVars>>
AuthGetCurrentUserId(c) ==
    /\ authCall(c, "getCurrentUserId", getCurrentUserId)
    /\ UNCHANGED <<diVars, useCaseVars, pgVars, ctlVars, srvVars, envVars, logVars>>
AuthIsAuthenticated(c) ==
    /\ authCall(c, "isAuthenticated", isAuthenticated)
    /\ UNCHANGED <<diVars, useCaseVars, pgVars, ctlVars, srvVars, envVars, logVars>>
AuthRequireAuth(c) ==
    /\ authCall(c, "requireAuth", requireAuth)
    /\ UNCHANGED <<diVars, useCaseVars, pgVars, ctlVars, srvVars, envVars, logVars>>

ContainerNext ==
    \/ GetContainer
    \/ ResetContainer
    \/ \E c \in 1..MaxContainers, r \in UserRepositories : SetUserRepository(c, r)
    \/ \E c \in 1..MaxContainers, s \in AuthServices : SetAuthService(c, s)
    \/ \E c \in 1..MaxContainers, s \in LoggerServices : SetLoggerService(c, s)
    \/ \E c \in 1..MaxContainers : AuthGetCurrentUser(c)
    \/ \E c \in 1..MaxContainers : AuthGetCurrentUserId(c)
    \/ \E c \in 1..MaxContainers : AuthIsAuthenticated(c)
    \/ \E c \in 1..MaxContainers : AuthRequireAuth(c)

ContainerSpec == Init /\ [][ContainerNext]_vars

\* the controller of Container c is built on the repository and logger that
\* the Container currently holds
C18_Wired(c) ==
    /\ getUserController(c).createUserUseCase.userRepository = getUserRepository(c)
    /\ getUserController(c).getUserUseCase.userRepository = getUserRepository(c)
    /\ getUserController(c).listUsersUseCase.userRepository = getUserRepository(c)
    /\ getUserController(c).logger = getLoggerService(c)

\* C18: in every state reached by getContainer, resetContainer and set* calls
\* in any order, the controller getUserController returns has all three use
\* cases on the repository getUserRepository returns and the logger
\* getLoggerService returns; setAuthService(s) leaves getAuthService
\* returning s, and no other call changes what getAuthService returns.
C18_ControllerFollowsSwaps ==
    /\ [](\A c \in DOMAIN containers : C18_Wired(c))
    /\ [][\A c \in DOMAIN containers :
            /\ \A s \in AuthServices :
                  SetAuthService(c, s) => getAuthService(c)' = s
            /\ getAuthService(c)' # getAuthService(c)
                  => \E s \in AuthServices : SetAuthService(c, s)]_vars

C18_Witness ==
    /\ Len(containers) >= 1
    /\ getUserRepository(1).class = "StubUserRepository"
    /\ getLoggerService(1).class = "SilentLoggerService"
    /\ getAuthService(1).class = "ClerkAuthService"
    /\ getUserController(1).logger.class = "SilentLoggerService"
    /\ getUserController(1).createUserUseCase.userRepository.class
          = "StubUserRepository"

\* the Container at index c is wired as the constructor wires it, with
\* objects of its own
C19_DefaultWired(k, c) ==
    /\ k.userRepository = [class |-> "PostgresUserRepository", madeBy |-> c]
    /\ k.loggerService = [class |-> "ConsoleLoggerService", madeBy |-> c]
    /\ k.authService = [class |-> "PlaceholderAuthService", madeBy |-> c]
    /\ k.userController.logger = k.loggerService
    /\ k.userController.createUserUseCase.userRepository = k.userRepository
    /\ k.userController.getUserUseCase.userRepository = k.userRepository
    /\ k.userController.listUsersUseCase.userRepository = k.userRepository

\* C19: since the last resetContainer, getContainer has returned at most one
\* Container and constructed at most one; a getContainer call with no current
\* instance adds a Container that did not exist, wired by default, sharing
\* no repository, logger or auth service with an earlier Container, and
\* leaves the earlier Containers as they were.
C19_SingletonUntilReset ==
    /\ [](/\ Cardinality(handedOut) <= 1
          /\ constructed <= 1
          /\ containerInstance # 0 => handedOut = {containerInstance})
    /\ [][(containerInstance = 0 /\ containerInstance' # 0)
            => /\ containerInstance' \notin DOMAIN containers
               /\ \A c \in DOMAIN containers : containers'[c] = containers[c]
               /\ \A i \in DOMAIN containers' :
                     i = containerInstance'
                        => /\ C19_DefaultWired(containers'[i], i)
                           /\ \A c \in DOMAIN containers :
                                 /\ containers'[i].userRepository
                                       # containers[c].userRepository
                                 /\ containers'[i].loggerService
                                       # containers[c].loggerService
                                 /\ containers'[i].authService
                                       # containers[c].authService]_vars

C19_Witness ==
    /\ containerInstance = 2
    /\ handedOut = {2}
    /\ constructed = 1
    /\ Len(containers) = 2
    /\ getUserRepository(1).class = "InMemoryUserRepository"
    /\ getLoggerService(1).class = "SilentLoggerService"
    /\ C19_DefaultWired(containers[2], 2)

\* the positions of the calls of a logger method in the log of the last call
C21_Entries(methods) ==
    {i \in 1..Len(logged) : logged[i].target = "logger" /\ logged[i].method \in methods}

\* C21: after every UserController call the calls it made are, in order, one
\* logger.debug with the method's 'begin' message, the use case's execute, and
\* one exit entry: logger.trace with the 'end' message when the use case
\* resolved, logger.error when it rejected; never both and never neither.
C21_LogsAtEntryAndExit ==
    request.method # "none"
       => /\ Len(logged) = 3
          /\ logged[1] = LoggerCall("debug", beginMessage(request.method))
          /\ logged[2].method = "execute"
          /\ C21_Entries({"debug"}) = {1}
          /\ C21_Entries({"trace", "error"}) = {3}
          /\ outcome.settled = "resolved"
                => /\ logged[3] = LoggerCall("trace", endMessage(request.method))
                   /\ response.success
          /\ outcome.settled = "rejected"
                => /\ logged[3].method = "error"
                   /\ ~response.success

C21_Witness ==
    /\ request.method = "getUserById"
    /\ outcome.settled = "rejected"
    /\ instanceofError(outcome.error)
    /\ outcome.error.name = "NotFoundError"
    /\ Len(logged) = 3
    /\ logged[3].method = "error"

(***************************************************************************)
(* The server actions of app/actions/users.ts.  Each takes the controller  *)
(* of getContainer(), awaits one controller method and turns its response  *)
(* into a returned value or a thrown Error.  The controller runs against   *)
(* the repository modelled by users and emailIndex.                        *)
(***************************************************************************)
\* if (!result.success) throw new Error(result.message); return result.data
serverActionResult(res) ==
    IF ~res.success THEN Rejected([name |-> "Error", message |-> res.message])
    ELSE Resolved(res.data)

\* a createUserAction that revalidates before it looks at the result
revalidatedAlways(res) == <<"/users">>

\* the revalidatePath calls of createUserAction
revalidatedByCreate(res) == IF ~res.success THEN <<>> ELSE <<"/users">>

CreateUserAction(in, fault) ==
    /\ getContainer
    /\ controllerCreateUser(in, fault)
    /\ actionResult' = serverActionResult(response')
    /\ revalidated' = revalidatedByCreate(response')
    /\ UNCHANGED <<heldControllers, storedIn, authOutcome, envVars, logVars>>

GetUserAction(id, fault) ==
    /\ getContainer
    /\ controllerGetUserById(id, fault)
    /\ actionResult' = serverActionResult(response')
    /\ revalidated' = <<>>
    /\ UNCHANGED <<heldControllers, storedIn, authOutcome, envVars, logVars>>

ListUsersAction(limit, offset, fault) ==
    /\ getContainer
    /\ controllerListUsers(limit, offset, fault)
    /\ actionResult' = serverActionResult(response')
    /\ revalidated' = <<>>
    /\ UNCHANGED <<heldControllers, storedIn, authOutcome, envVars, logVars>>

ActionNext ==
    \/ Tick
    \/ \E in \in CtlCreateInputs, fault \in Faults : CreateUserAction(in, fault)
    \/ \E id \in CtlIdStrings, fault \in Faults : GetUserAction(id, fault)
    \/ \E a \in CtlListArgs, fault \in Faults : ListUsersAction(a[1], a[2], fault)
    \/ \E id \in CtlUserIdStrings : CtlDelete(id)

ActionSpec == Init /\ [][ActionNext]_vars

\* C22: after every server action, the action rejected with an Error whose
\* message is the response's message exactly when the controller's response
\* has success false, and otherwise resolved with the response's data;
\* createUserAction passed "/users" to revalidatePath once when the response
\* has success true, the created user having been stored (and still being
\* stored unless deleted since), and made no revalidatePath call when it has
\* success false; the other two make none.
C22_ActionsThrowOnFailure ==
    request.method # "none"
       => /\ actionResult.settled = "rejected" <=> ~response.success
          /\ actionResult.settled = "resolved" <=> response.success
          /\ ~response.success
                => /\ actionResult.error.name = "Error"
                   /\ actionResult.error.message = response.message
                   /\ revalidated = <<>>
          /\ response.success => actionResult.value = response.data
          /\ (request.method = "createUser" /\ response.success)
                => /\ revalidated = <<"/users">>
                   /\ \E i \in 1..Len(issuedIds) : issuedIds[i] = outcome.value.id
                   /\ response.data \in created
                         => findById(response.data.id) = outcome.value
          /\ request.method # "createUser" => revalidated = <<>>

C22_Witness ==
    /\ request.method = "createUser"
    /\ ~response.success
    /\ response.error = "Error"
    /\ actionResult.settled = "rejected"
    /\ revalidated = <<>>
    /\ Len(users) = 1

C24_Limit == IF request.limit = Undefined THEN 10 ELSE request.limit[1]
C24_Offset == IF request.offset = Undefined THEN 0 ELSE request.offset[1]

\* C24: after every listUsers call, with limit 10 and offset 0 standing in
\* for absent arguments: a limit below 1 or above 100 made the use case
\* reject with the ValidationError "Limit must be between 1 and 100" and make
\* no repository call; a limit in 1..100 made it call list(limit, offset)
\* once and nothing else, whatever the offset, negative ones included.
C24_LimitCheckedBeforeList ==
    request.method = "listUsers"
       => /\ (C24_Limit < 1 \/ C24_Limit > 100)
                => /\ outcome = Rejected(LimitValidationError)
                   /\ repositoryCalls = <<>>
                   /\ ~response.success
                   /\ response.error = "ValidationError"
          /\ (C24_Limit >= 1 /\ C24_Limit <= 100)
                => /\ repositoryCalls = <<RepositoryCall("list", <<C24_Limit, C24_Offset>>)>>
                   /\ request.fault = "none" => outcome.settled = "resolved"

C24_Witness ==
    /\ request.method = "listUsers"
    /\ request.limit = <<100>>
    /\ request.offset = <<-1>>
    /\ request.fault = "none"
    /\ Len(repositoryCalls) = 1
    /\ Len(users) = 2
    /\ response.success
    /\ response.data.total = 1

\* C25: in every state, for every limit and offset ListUsersUseCase.execute
\* accepts, the total it resolves with is the length of the page it resolves
\* with, is at most the limit, and is below the number of stored users when
\* more users are stored than the page holds; and after listUsersAction the
\* controller's response and the action's value carry the use case's total
\* beside a page of that length.
C25_TotalIsPageLength ==
    /\ \A a \in CtlListArgs :
          LET o == listUsersOutcome(a[1], a[2], "none")
              limit == IF a[1] = Undefined THEN 10 ELSE a[1][1]
          IN  o.settled = "resolved"
                 => /\ o.value.total = Len(o.value.users)
                    /\ o.value.total <= limit
                    /\ Len(users) > Len(o.value.users) => o.value.total < Len(users)
    /\ (request.method = "listUsers" /\ outcome.settled = "resolved")
          => /\ outcome.value.total = Len(outcome.value.users)
             /\ response.success
             /\ response.data.total = outcome.value.total
             /\ Len(response.data.users) = response.data.total
             /\ actionResult = Resolved(response.data)

C25_Witness ==
    /\ request.method = "listUsers"
    /\ request.limit = <<1>>
    /\ request.offset = <<1>>
    /\ Len(users) = 2
    /\ outcome.settled = "resolved"
    /\ actionResult.settled = "resolved"
    /\ actionResult.value.total = 1

C27_ConcurrentCreatesKeepEveryUser ==
    /\ \A i, j \in 1..Len(issuedIds) : issuedIds[i] = issuedIds[j] => i = j
    /\ \A i \in 1..Len(issuedIds) : \E u \in StoredUsers : u.id = issuedIds[i]
    /\ Len(users) = Len(issuedIds)
    /\ \A p \in Procs :
          createdUser[p] # Null
             => MapGet(users, createdUser[p].id) = <<createdUser[p]>>

C27_Witness ==
    /\ pc[1] = "awaitCreate"
    /\ pc[2] = "awaitCreate"
    /\ createdUser[1] # Null
    /\ createdUser[2] # Null
    /\ createdUser[1].id # createdUser[2].id
    /\ createdUser[1].email = createdUser[2].email

(***************************************************************************)
(* Controllers handed out by getUserController and used after a swap.      *)
(* What a repository object holds is the set of emails createUser stored   *)
(* in it.                                                                  *)
(***************************************************************************)
\* const controller = container.getUserController(), kept by the caller
GetUserController(c) ==
    /\ c \in DOMAIN containers
    /\ Cardinality(heldControllers) < MaxHeld
    /\ heldControllers' =
          heldControllers \cup {[container |-> c, controller |-> getUserController(c)]}
    /\ UNCHANGED <<containers, containerInstance, handedOut, constructed, storedIn,
                   useCaseVars, pgVars, ctlVars, moreVars>>

\* controller.createUser(input) on a controller a caller holds, with a fresh
\* valid email: its use case stores the user in its repository
HeldCreateUser(h, email) ==
    /\ h \in heldControllers
    /\ storedIn' = storedIn \cup
          {[repository |-> h.controller.createUserUseCase.userRepository,
            email |-> email]}
    /\ UNCHANGED <<containers, containerInstance, handedOut, constructed,
                   heldControllers, useCaseVars, pgVars, ctlVars, moreVars>>

\* the repositories and the controllers there can be
AllRepositories ==
    UserRepositories \cup {PostgresUserRepository(c) : c \in 1..MaxContainers}
AllControllers ==
    {UserController(l, CreateUserUseCase(r), GetUserUseCase(r), ListUsersUseCase(r)) :
        l \in LoggerServices \cup {ConsoleLoggerService(c) : c \in 1..MaxContainers},
        r \in AllRepositories}

HandoutNext ==
    \/ GetContainer
    \/ \E c \in 1..MaxContainers : GetUserController(c)
    \/ \E c \in 1..MaxContainers, r \in UserRepositories : SetUserRepository(c, r)
    \/ \E c \in 1..MaxContainers, s \in LoggerServices : SetLoggerService(c, s)
    \/ \E c \in 1..MaxContainers, k \in AllControllers :
          HeldCreateUser([container |-> c, controller |-> k], EmailA)

HandoutSpec == Init /\ [][HandoutNext]_vars

\* the emails stored in the repository r
C28_EmailsIn(r) == {x.email : x \in {y \in storedIn : y.repository = r}}

\* C28: no step changes or drops a controller a caller holds, so it keeps
\* the repository and logger it was built on; a controller got from
\* getUserController is the Container's current one; and createUser on a held
\* controller stores the user in that controller's repository only, so a
\* held controller built on a replaced repository adds nothing to what the
\* Container's current repository holds.
C28_HeldControllersKeepTheirWiring ==
    [][/\ \A h \in heldControllers : h \in heldControllers'
       /\ \A h \in heldControllers' \ heldControllers :
             /\ h.container \in DOMAIN containers
             /\ h.controller = getUserController(h.container)
             /\ UNCHANGED <<containers, storedIn>>
       /\ \A x \in storedIn' \ storedIn :
             /\ \E h \in heldControllers :
                   x.repository = h.controller.createUserUseCase.userRepository
             /\ \A r \in AllRepositories :
                   r # x.repository => C28_EmailsIn(r)' = C28_EmailsIn(r)]_vars

C28_Witness ==
    /\ Len(containers) = 1
    /\ getUserRepository(1).class = "StubUserRepository"
    /\ getLoggerService(1).class = "SilentLoggerService"
    /\ \E h \in heldControllers :
          /\ h.controller.createUserUseCase.userRepository = PostgresUserRepository(1)
          /\ h.controller.logger = ConsoleLoggerService(1)
          /\ C28_EmailsIn(PostgresUserRepository(1)) = {EmailA}
    /\ C28_EmailsIn(getUserRepository(1)) = {}
    /\ \E h \in heldControllers : h.controller = getUserController(1)

(***************************************************************************)
(* getEnv: the environment schema, the module variable validatedEnv, and   *)
(* process.env changing under it.                                          *)
(***************************************************************************)
Letters == {"a", "b", "c", "d", "e", "g", "h", "i", "l", "n", "o", "p", "r", "s", "t"}
SpecialSchemes == {<<"h", "t", "t", "p">>, <<"h", "t", "t", "p", "s">>}

RECURSIVE dropSlashes(_)
dropSlashes(str) ==
    IF str # <<>> /\ Head(str) = "/" THEN dropSlashes(Tail(str)) ELSE str

\* z.string().url(): new URL(s) succeeds, for the strings the model uses: a
\* scheme of letters before the first ":", and for http and https a host
\* after the slashes
IsUrl(str) ==
    \E k \in 2..Len(str) :
        /\ str[k] = ":"
        /\ \A i \in 1..(k - 1) : str[i] \in Letters
        /\ SubSeq(str, 1, k - 1) \in SpecialSchemes
              => dropSlashes(SubSeq(str, k + 1, Len(str))) # <<>>

\* /^[0-4]$/
MatchesLogLevel(str) == Len(str) = 1 /\ IsDigit(str[1]) /\ DigitVal(str[1]) <= MaxLogLevel

UrlDatabase == <<"p", "g", ":", "/", "/", "h">>
UrlApp == <<"h", "t", "t", "p", ":", "/", "/", "a">>
UrlLocalhost ==
    <<"h", "t", "t", "p", ":", "/", "/", "l", "o", "c", "a", "l", "h", "o", "s", "t",
      ":", "3", "0", "0", "0">>
NotUrl == <<"h">>
NodeEnvs == {"development", "production", "test"}

\* the issues of envSchema.safeParse, as the paths that failed, in the order
\* of the schema
envIssues(env) ==
    (IF env.DATABASE_URL # Undefined /\ IsUrl(env.DATABASE_URL[1]) THEN <<>>
     ELSE <<"DATABASE_URL">>)
    \o (IF env.NEXT_PUBLIC_APP_URL = Undefined \/ IsUrl(env.NEXT_PUBLIC_APP_URL[1])
        THEN <<>> ELSE <<"NEXT_PUBLIC_APP_URL">>)
    \o (IF env.NODE_ENV = Undefined \/ env.NODE_ENV[1] \in NodeEnvs
        THEN <<>> ELSE <<"NODE_ENV">>)
    \o (IF env.APP_LOG_LEVEL = Undefined \/ MatchesLogLevel(env.APP_LOG_LEVEL[1])
        THEN <<>> ELSE <<"APP_LOG_LEVEL">>)

\* result.data of a successful envSchema.safeParse: defaults, then the transform
envData(env) ==
    [DATABASE_URL |-> env.DATABASE_URL[1],
     NEXT_PUBLIC_APP_URL |->
         IF env.NEXT_PUBLIC_APP_URL = Undefined THEN UrlLocalhost
         ELSE env.NEXT_PUBLIC_APP_URL[1],
     NODE_ENV |-> IF env.NODE_ENV = Undefined THEN "development" ELSE env.NODE_ENV[1],
     APP_LOG_LEVEL |->
         parseInt(IF env.APP_LOG_LEVEL = Undefined THEN <<Digits[DefaultLogLevel + 1]>>
                  ELSE env.APP_LOG_LEVEL[1])[1]]

envSafeParse(env) ==
    IF envIssues(env) = <<>> THEN [success |-> TRUE, data |-> envData(env)]
    ELSE [success |-> FALSE, issues |-> envIssues(env)]

\* what a getEnv call settles with; validated tells whether the call read
\* process.env and ran the schema
EnvReturned(env, validated) ==
    [settled |-> "returned", value |-> env, validated |-> validated]
EnvThrew(issues) ==
    [settled |-> "threw", name |-> "Error", issues |-> issues, validated |-> TRUE]

\* a getEnv that validates on every call
envNeverCached == FALSE

\* if (validatedEnv)
envCached == validatedEnv # Null

\* getEnv(): what it returns or throws, and what it leaves in validatedEnv
getEnvResult ==
    IF envCached THEN EnvReturned(validatedEnv, FALSE)
    ELSE LET parsed == envSafeParse(processEnv)
         IN  IF ~parsed.success THEN EnvThrew(parsed.issues)
             ELSE EnvReturned(parsed.data, TRUE)

validatedEnvAfterGetEnv ==
    IF getEnvResult.settled = "returned" THEN getEnvResult.value ELSE validatedEnv

EnvNames == {"DATABASE_URL", "NEXT_PUBLIC_APP_URL", "NODE_ENV", "APP_LOG_LEVEL"}
EnvValues(name) ==
    CASE name = "DATABASE_URL" -> {Undefined, <<UrlDatabase>>, <<NotUrl>>}
      [] name = "NEXT_PUBLIC_APP_URL" -> {Undefined, <<UrlApp>>, <<NotUrl>>}
      [] name = "NODE_ENV" -> {Undefined, <<"production">>, <<"staging">>}
      [] name = "APP_LOG_LEVEL" -> {Undefined, <<<<"0">>>>, <<<<"3">>>>, <<<<"5">>>>}

\* process.env[name] is set or removed outside the program
SetEnv(name, value) ==
    /\ processEnv[name] # value
    /\ processEnv' = [processEnv EXCEPT ![name] = value]
    /\ UNCHANGED <<validatedEnv, envResult, logVars, authOutcome, srvVars,
                   useCaseVars, pgVars, ctlVars, diVars>>

GetEnv ==
    /\ envResult' = getEnvResult
    /\ validatedEnv' = validatedEnvAfterGetEnv
    /\ UNCHANGED <<processEnv, logVars, authOutcome, srvVars,
                   useCaseVars, pgVars, ctlVars, diVars>>

EnvNext ==
    \/ \E name \in EnvNames : \E value \in EnvValues(name) : SetEnv(name, value)
    \/ GetEnv

EnvSpec == Init /\ [][EnvNext]_vars

\* C30: while validatedEnv is empty every getEnv call that has returned is
\* the one that filled it, so a call made with an invalid environment threw
\* and left it empty, and the next call validates again; once validatedEnv is
\* filled no step changes it, and every later getEnv call returns it without
\* reading or validating process.env, whatever process.env holds by then.
C30_CachesOnlySuccess ==
    /\ [](validatedEnv = Null => envResult.settled \in {"pending", "threw"})
    /\ [][/\ (validatedEnv = Null /\ envResult' # envResult)
                => /\ envResult'.validated
                   /\ envIssues(processEnv) # <<>>
                         => /\ envResult'.settled = "threw"
                            /\ validatedEnv' = Null
                   /\ envIssues(processEnv) = <<>>
                         => /\ envResult' = EnvReturned(envData(processEnv), TRUE)
                            /\ validatedEnv' = envData(processEnv)
          /\ validatedEnv # Null
                => /\ validatedEnv' = validatedEnv
                   /\ envResult' # envResult
                         => envResult' = EnvReturned(validatedEnv, FALSE)]_vars

C30_Witness ==
    /\ validatedEnv # Null
    /\ envIssues(processEnv) # <<>>
    /\ processEnv.APP_LOG_LEVEL = <<<<"5">>>>
    /\ envResult = EnvReturned(validatedEnv, FALSE)
    /\ validatedEnv.APP_LOG_LEVEL = 3

(***************************************************************************)
(* ConsoleLoggerService: its log level, taken from the constructor         *)
(* argument or from getEnv(), and what each method passes to console.log.  *)
(***************************************************************************)
LogMethods == {"trace", "debug", "info", "warn", "error", "fatal"}

\* the number in the guard of each method: if (this.logLevel > n) return
methodGuard(method) ==
    CASE method = "trace" -> 0
      [] method = "debug" -> 1
      [] method = "info" -> 2
      [] method = "warn" -> 3
      [] method = "error" -> 4
      [] method = "fatal" -> 4

levelToNumber(level) ==
    CASE level = "trace" -> 0
      [] level = "debug" -> 1
      [] level = "info" -> 2
      [] level = "warn" -> 3
      [] level \in {"error", "fatal"} -> 4
      [] OTHER -> 2

\* level.toUpperCase()
levelToUpperCase(level) ==
    CASE level = "trace" -> "TRACE"
      [] level = "debug" -> "DEBUG"
      [] level = "info" -> "INFO"
      [] level = "warn" -> "WARN"
      [] level = "error" -> "ERROR"
      [] level = "fatal" -> "FATAL"

\* log(level, message, error, context): the console.log calls, in order; a
\* context is the set of its keys
log(level, message, error, context) ==
    <<[text |-> "line", timestamp |-> toISOString(clock),
       label |-> levelToUpperCase(level), levelNumber |-> levelToNumber(level),
       message |-> message]>>
    \o (IF context # Undefined /\ Cardinality(context[1]) > 0
        THEN <<[text |-> "Context:", context |-> context[1]]>> ELSE <<>>)
    \o (IF error # Undefined
        THEN <<[text |-> "Error Details:", name |-> error[1].name,
                message |-> error[1].message]>>
        ELSE <<>>)

\* a guard that also returns at the method's own level
returnsEarlyAtLevel(method) == logLevel[1] >= methodGuard(method)

\* if (this.logLevel > n) return
returnsEarly(method) == logLevel[1] > methodGuard(method)

\* what one method call passes to console.log
consoleOutput(method, message, error, context) ==
    IF returnsEarly(method) THEN <<>> ELSE log(method, message, error, context)

\* the arguments of the constructor and of the methods
LogLevelArguments == {Undefined} \cup {<<n>> : n \in 0..(MaxLogLevel + 1)}
LogContexts == {Undefined, <<{}>>, <<{"userId"}>>}
LogErrors == {Undefined, <<[name |-> "Error", message |-> "Failed to create user"]>>}

\* new ConsoleLoggerService(logLevel): logLevel ?? getEnv().APP_LOG_LEVEL; when
\* getEnv throws no logger is constructed
NewConsoleLoggerService(level) ==
    /\ IF level # Undefined
       THEN /\ logLevel' = level
            /\ logCall' = [method |-> "none"]
            /\ printed' = <<>>
            /\ UNCHANGED <<validatedEnv, envResult>>
       ELSE /\ envResult' = getEnvResult
            /\ validatedEnv' = validatedEnvAfterGetEnv
            /\ IF getEnvResult.settled = "returned"
               THEN /\ logLevel' = <<getEnvResult.value.APP_LOG_LEVEL>>
                    /\ logCall' = [method |-> "none"]
                    /\ printed' = <<>>
               ELSE UNCHANGED logVars
    /\ UNCHANGED <<processEnv, authOutcome, srvVars, useCaseVars, pgVars, ctlVars, diVars>>

\* one call of a method of the logger constructed last
loggerCall(method, message, error, context) ==
    /\ logLevel # Undefined
    /\ logCall' = [method |-> method, message |-> message, error |-> error,
                   context |-> context]
    /\ printed' = consoleOutput(method, message, error, context)

LoggerTrace(message, context) ==
    /\ loggerCall("trace", message, Undefined, context)
    /\ UNCHANGED <<logLevel, envVars, authOutcome, srvVars, useCaseVars, pgVars, ctlVars, diVars>>
LoggerDebug(message, context) ==
    /\ loggerCall("debug", message, Undefined, context)
    /\ UNCHANGED <<logLevel, envVars, authOutcome, srvVars, useCaseVars, pgVars, ctlVars, diVars>>
LoggerInfo(message, context) ==
    /\ loggerCall("info", message, Undefined, context)
    /\ UNCHANGED <<logLevel, envVars, authOutcome, srvVars, useCaseVars, pgVars, ctlVars, diVars>>
LoggerWarn(message, context) ==
    /\ loggerCall("warn", message, Undefined, context)
    /\ UNCHANGED <<logLevel, envVars, authOutcome, srvVars, useCaseVars, pgVars, ctlVars, diVars>>
LoggerError(message, error, context) ==
    /\ loggerCall("error", message, error, context)
    /\ UNCHANGED <<logLevel, envVars, authOutcome, srvVars, useCaseVars, pgVars, ctlVars, diVars>>
LoggerFatal(message, error, context) ==
    /\ loggerCall("fatal", message, error, context)
    /\ UNCHANGED <<logLevel, envVars, authOutcome, srvVars, useCaseVars, pgVars, ctlVars, diVars>>

LoggerNext ==
    \/ \E value \in {<<UrlDatabase>>, Undefined} : SetEnv("DATABASE_URL", value)
    \/ \E value \in EnvValues("APP_LOG_LEVEL") : SetEnv("APP_LOG_LEVEL", value)
    \/ \E level \in LogLevelArguments : NewConsoleLoggerService(level)
    \/ \E context \in LogContexts : LoggerTrace("message", context)
    \/ \E context \in LogContexts : LoggerDebug("message", context)
    \/ \E context \in LogContexts : LoggerInfo("message", context)
    \/ \E context \in LogContexts : LoggerWarn("message", context)
    \/ \E error \in LogErrors, context \in LogContexts :
          LoggerError("message", error, context)
    \/ \E error \in LogErrors, context \in LogContexts :
          LoggerFatal("message", error, context)

LoggerSpec == Init /\ [][LoggerNext]_vars

\* the level number of a method: trace 0, debug 1, info 2, warn 3, error and
\* fatal 4
C29_LevelNumber(method) ==
    CASE method = "trace" -> 0
      [] method = "debug" -> 1
      [] method = "info" -> 2
      [] method = "warn" -> 3
      [] method \in {"error", "fatal"} -> 4

\* C29: after every call on a ConsoleLoggerService whose log level L is in
\* 0..4, the call printed something exactly when the level number of its
\* method is at least L, the first thing printed being the line with the
\* method's level number and the message; so error and fatal always print,
\* and a call below L prints nothing.
C29_PrintsAtOrAboveLevel ==
    (logCall.method # "none" /\ logLevel[1] \in 0..4)
       => /\ printed # <<>> <=> C29_LevelNumber(logCall.method) >= logLevel[1]
          /\ logCall.method \in {"error", "fatal"} => printed # <<>>
          /\ (logCall.method = "trace" /\ logLevel[1] > 0) => printed = <<>>
          /\ printed # <<>>
                => /\ printed[1].text = "line"
                   /\ printed[1].message = logCall.message
                   /\ printed[1].levelNumber = C29_LevelNumber(logCall.method)

C29_Witness ==
    /\ logLevel = <<3>>
    /\ validatedEnv # Null
    /\ logCall.method = "warn"
    /\ Len(printed) = 2
    /\ printed[2].text = "Context:"

====
